---- MODULE Spec2Model ----
(***************************************************************************)
(* The local multiplexing proxy of totalrecall (tools/tls-proxy/main.go):  *)
(* listener and accept loop, first-line classifier, outbound connection    *)
(* pool, ingestion handler, subscriber handler and the publish/subscribe   *)
(* hub and request-proxy handler, with the goroutines of the handlers       *)
(* interleaved at their lock, channel and I/O operations; and the event    *)
(* producer: the shell hooks of scripts/preexec.sh and the hook program    *)
(* they start, with its environment filter (env_config.go).                *)
(***************************************************************************)
EXTENDS Integers, Sequences, FiniteSets, TLC

(***************************************************************************)
(* Bytes.  A line is a sequence of one-character strings; the newline that *)
(* frames it on the socket is not part of it.                              *)
(***************************************************************************)

\* unicode.IsSpace restricted to the characters the inputs use.
IsSpace(ch) == ch \in {" ", "\t", "\r", "\n"}

IsDigit(ch) == ch \in {"0", "1", "2", "3", "4", "5", "6", "7", "8", "9"}

\* strings.HasPrefix
HasPrefix(s, p) == Len(s) >= Len(p) /\ SubSeq(s, 1, Len(p)) = p

\* The rest of s from index i on (s[i:] with 1-based i).
From(s, i) == SubSeq(s, i, Len(s))

RECURSIVE TrimLeft(_)
TrimLeft(s) == IF s # <<>> /\ IsSpace(Head(s)) THEN TrimLeft(Tail(s)) ELSE s

RECURSIVE TrimRight(_)
TrimRight(s) ==
    IF s # <<>> /\ IsSpace(s[Len(s)]) THEN TrimRight(SubSeq(s, 1, Len(s) - 1)) ELSE s

\* strings.TrimSpace
TrimSpace(s) == TrimRight(TrimLeft(s))

\* Index of the first element of s at or after i that equals ch; 0 if none.
RECURSIVE IndexFrom(_, _, _)
IndexFrom(s, ch, i) ==
    IF i > Len(s) THEN 0
    ELSE IF s[i] = ch THEN i
    ELSE IndexFrom(s, ch, i + 1)

\* Index of the first white-space element of s at or after i; Len(s)+1 if none.
RECURSIVE SpaceFrom(_, _)
SpaceFrom(s, i) ==
    IF i > Len(s) THEN Len(s) + 1
    ELSE IF IsSpace(s[i]) THEN i
    ELSE SpaceFrom(s, i + 1)

\* strings.Fields: the maximal runs of non-space characters.
RECURSIVE Fields(_)
Fields(s) ==
    LET t == TrimLeft(s)
    IN  IF t = <<>> THEN <<>>
        ELSE LET j == SpaceFrom(t, 1)
             IN  <<SubSeq(t, 1, j - 1)>> \o Fields(From(t, j))

\* strings.Split(s, sep) for a one-character separator.
RECURSIVE Split(_, _)
Split(s, sep) ==
    LET j == IndexFrom(s, sep, 1)
    IN  IF j = 0 THEN <<s>>
        ELSE <<SubSeq(s, 1, j - 1)>> \o Split(From(s, j + 1), sep)

\* strings.SplitN(s, sep, 2)
SplitN2(s, sep) ==
    LET j == IndexFrom(s, sep, 1)
    IN  IF j = 0 THEN <<s>> ELSE <<SubSeq(s, 1, j - 1), From(s, j + 1)>>

\* strings.Join(parts, " ")
RECURSIVE JoinSpace(_)
JoinSpace(parts) ==
    IF parts = <<>> THEN <<>>
    ELSE IF Len(parts) = 1 THEN parts[1]
    ELSE parts[1] \o <<" ">> \o JoinSpace(Tail(parts))

(***************************************************************************)
(* encoding/json and fmt, on the fragment of JSON the inputs use: one      *)
(* object whose members are "key":value with no white space inside, the    *)
(* values being strings without escapes, non-negative integers, true,      *)
(* false, null or the empty object; or the literal null.  A decoded value  *)
(* is [t |-> its kind, v |-> its characters].                              *)
(***************************************************************************)

EmptyMap == [k \in {} |-> <<>>]

MapPut(m, key, val) ==
    [k \in DOMAIN m \cup {key} |-> IF k = key THEN val ELSE m[k]]

\* Index of the first non-digit element of s at or after i; Len(s)+1 if none.
RECURSIVE DigitsEnd(_, _)
DigitsEnd(s, i) ==
    IF i > Len(s) THEN Len(s) + 1
    ELSE IF IsDigit(s[i]) THEN DigitsEnd(s, i + 1)
    ELSE i

NoValue == [ok |-> FALSE, val |-> [t |-> "null", v |-> <<>>], next |-> 0]

\* The JSON value that starts at s[i]: [ok, val, next], next the index after it.
ParseValue(s, i) ==
    LET rest == From(s, i)
    IN  IF i > Len(s) THEN NoValue
        ELSE IF s[i] = "\""
        THEN LET j == IndexFrom(s, "\"", i + 1)
             IN  IF j = 0 THEN NoValue
                 ELSE [ok |-> TRUE,
                       val |-> [t |-> "string", v |-> SubSeq(s, i + 1, j - 1)],
                       next |-> j + 1]
        ELSE IF IsDigit(s[i])
        THEN LET k == DigitsEnd(s, i)
             IN  IF s[i] = "0" /\ k > i + 1 THEN NoValue
                 ELSE [ok |-> TRUE,
                       val |-> [t |-> "number", v |-> SubSeq(s, i, k - 1)],
                       next |-> k]
        ELSE IF HasPrefix(rest, <<"t", "r", "u", "e">>)
        THEN [ok |-> TRUE, val |-> [t |-> "bool", v |-> <<"t", "r", "u", "e">>],
              next |-> i + 4]
        ELSE IF HasPrefix(rest, <<"f", "a", "l", "s", "e">>)
        THEN [ok |-> TRUE, val |-> [t |-> "bool", v |-> <<"f", "a", "l", "s", "e">>],
              next |-> i + 5]
        ELSE IF HasPrefix(rest, <<"n", "u", "l", "l">>)
        THEN [ok |-> TRUE, val |-> [t |-> "null", v |-> <<>>], next |-> i + 4]
        ELSE IF HasPrefix(rest, <<"{", "}">>)
        THEN [ok |-> TRUE, val |-> [t |-> "object", v |-> <<>>], next |-> i + 2]
        ELSE NoValue

\* The members of an object from s[i] on, up to the closing brace that ends s.
\* A repeated key keeps its last value, as a Go map does.
RECURSIVE ParseMembers(_, _, _)
ParseMembers(s, i, acc) ==
    IF i > Len(s) \/ s[i] # "\"" THEN [ok |-> FALSE, obj |-> EmptyMap]
    ELSE LET j == IndexFrom(s, "\"", i + 1)
         IN  IF j = 0 \/ j + 1 > Len(s) \/ s[j + 1] # ":"
             THEN [ok |-> FALSE, obj |-> EmptyMap]
             ELSE LET pv == ParseValue(s, j + 2)
                      got == MapPut(acc, SubSeq(s, i + 1, j - 1), pv.val)
                  IN  IF ~pv.ok \/ pv.next > Len(s)
                      THEN [ok |-> FALSE, obj |-> EmptyMap]
                      ELSE IF s[pv.next] = "}"
                      THEN [ok |-> pv.next = Len(s), obj |-> IF pv.next = Len(s) THEN got ELSE EmptyMap]
                      ELSE IF s[pv.next] = ","
                      THEN ParseMembers(s, pv.next + 1, got)
                      ELSE [ok |-> FALSE, obj |-> EmptyMap]

\* json.Unmarshal(data, &m) with m a map[string]interface{}: ok is err == nil
\* and obj is m afterwards.  The literal null decodes without error and leaves
\* the map nil; any other value that is not an object is an error.
Unmarshal(data) ==
    LET s == TrimSpace(data)
    IN  IF s = <<"n", "u", "l", "l">> THEN [ok |-> TRUE, obj |-> EmptyMap]
        ELSE IF s = <<>> \/ s[1] # "{" THEN [ok |-> FALSE, obj |-> EmptyMap]
        ELSE IF s = <<"{", "}">> THEN [ok |-> TRUE, obj |-> EmptyMap]
        ELSE ParseMembers(s, 2, EmptyMap)

\* s without its trailing zeros.
RECURSIVE StripZeros(_)
StripZeros(s) ==
    IF s # <<>> /\ s[Len(s)] = "0" THEN StripZeros(SubSeq(s, 1, Len(s) - 1)) ELSE s

TwoDigits(n) ==
    LET d == <<"0", "1", "2", "3", "4", "5", "6", "7", "8", "9">>
    IN  <<d[(n \div 10) + 1], d[(n % 10) + 1]>>

\* strconv's %g with the shortest precision (what %v uses), for the float64
\* of a non-negative integer of at most 15 digits: the digits themselves
\* below 10^6 and d.ddde+XX from there on.
FormatFloat(digits) ==
    IF Len(digits) < 7 THEN digits
    ELSE LET m == StripZeros(digits)
         IN  <<m[1]>> \o (IF Len(m) > 1 THEN <<".">> \o Tail(m) ELSE <<>>)
             \o <<"e", "+">> \o TwoDigits(Len(digits) - 1)

\* fmt.Sprintf("%v", value) of a decoded JSON value.
Sprintf(val) ==
    CASE val.t = "string" -> val.v
      [] val.t = "number" -> FormatFloat(val.v)
      [] val.t = "bool"   -> val.v
      [] val.t = "null"   -> <<"<", "n", "i", "l", ">">>
      [] val.t = "object" -> <<"m", "a", "p", "[", "]">>


(***************************************************************************)
(* The literals of the protocol.                                           *)
(***************************************************************************)

SUBSCRIBE == <<"S", "U", "B", "S", "C", "R", "I", "B", "E">>

Anonymous == <<"a", "n", "o", "n", "y", "m", "o", "u", "s">>

PING == <<"P", "I", "N", "G">>

QUIT == <<"Q", "U", "I", "T">>

PONG == <<"P", "O", "N", "G", "\n">>

Newline == <<"\n">>

\* fmt.Sprintf("SUBSCRIBED %s\n", subscriberID)
Subscribed(id) == <<"S", "U", "B", "S", "C", "R", "I", "B", "E", "D", " ">> \o id \o Newline

\* The verbs of isHTTPRequest, each with the space the code appends.
methods ==
    << <<"G", "E", "T", " ">>,
       <<"P", "O", "S", "T", " ">>,
       <<"P", "U", "T", " ">>,
       <<"D", "E", "L", "E", "T", "E", " ">>,
       <<"H", "E", "A", "D", " ">>,
       <<"O", "P", "T", "I", "O", "N", "S", " ">>,
       <<"P", "A", "T", "C", "H", " ">> >>

\* A classifier that takes the verb without the space after it.
isHTTPRequestNoSpace(line) ==
    \E i \in 1..Len(methods) : HasPrefix(line, SubSeq(methods[i], 1, Len(methods[i]) - 1))

\* isHTTPRequest: the line starts with one of the methods.
isHTTPRequest(line) == \E i \in 1..Len(methods) : HasPrefix(line, methods[i])

\* The switch of handleClient on the trimmed first line.
Classify(line) ==
    IF isHTTPRequest(line) THEN "http"
    ELSE IF HasPrefix(line, SUBSCRIBE) THEN "sub"
    ELSE "ingest"

\* handleClient's subscriber id: the second field, or "anonymous".
SubscriberID(line) ==
    LET parts == Fields(line)
    IN  IF Len(parts) >= 2 THEN parts[2] ELSE Anonymous

\* handleClient's filter string: the fields from the third on, joined by spaces.
FilterStr(line) ==
    LET parts == Fields(line)
    IN  IF Len(parts) >= 3 THEN JoinSpace(SubSeq(parts, 3, Len(parts))) ELSE <<>>

\* handleSubscriber's filter: the k=v pairs of the comma-separated filter
\* string, keys and values trimmed; a pair without "=" is dropped and a
\* repeated key keeps its last value.
RECURSIVE FilterOf(_, _)
FilterOf(pairs, acc) ==
    IF pairs = <<>> THEN acc
    ELSE LET kv == SplitN2(Head(pairs), "=")
         IN  FilterOf(Tail(pairs),
                      IF Len(kv) = 2
                      THEN MapPut(acc, TrimSpace(kv[1]), TrimSpace(kv[2]))
                      ELSE acc)

ParseFilter(filterStr) ==
    IF filterStr = <<>> THEN EmptyMap ELSE FilterOf(Split(filterStr, ","), EmptyMap)

\* A filter that looks at the keys and not at the values.
matchesFilterKeys(event, filter) ==
    \A key \in DOMAIN filter : key \in DOMAIN event

\* PubSubHub.matchesFilter
matchesFilter(event, filter) ==
    \/ DOMAIN filter = {}
    \/ \A key \in DOMAIN filter :
          /\ key \in DOMAIN event
          /\ Sprintf(event[key]) = filter[key]

\* bufio.ScanLines drops one trailing carriage return from the line.
DropCR(line) ==
    IF line # <<>> /\ line[Len(line)] = "\r" THEN SubSeq(line, 1, Len(line) - 1) ELSE line

(***************************************************************************)
(* Bounds and the clients' scripts.  A script is the lines one client      *)
(* sends on its connection, the first line first.                          *)
(***************************************************************************)

\* Client connections.
NumConns == 3

\* The -pool-size flag: the capacity of the pool's idle channel.
PoolSize == 1

\* Handles the downstream lets the proxy dial in one run.
MaxHandles == 2

\* bufio.MaxScanTokenSize, the longest line a bufio.Scanner accepts (64 * 1024
\* in Go), on the scale of the lines of the scripts.
MaxScanTokenSize == 16

Conns == 1..NumConns

Handles == 1..MaxHandles

\* exitCode while the process runs.
NoExit == <<>>

SubTuiTmp ==
    <<"S", "U", "B", "S", "C", "R", "I", "B", "E", " ", "t", "u", "i", " ", "p", "w", "d", "=", "/", "t", "m", "p">>

SubTui ==
    <<"S", "U", "B", "S", "C", "R", "I", "B", "E", " ", "t", "u", "i">>

SubA ==
    <<"S", "U", "B", "S", "C", "R", "I", "B", "E", " ", "a">>

SubBTmp ==
    <<"S", "U", "B", "S", "C", "R", "I", "B", "E", " ", "b", " ", "p", "w", "d", "=", "/", "t", "m", "p">>

EvTmp ==
    <<"{", "\"", "p", "w", "d", "\"", ":", "\"", "/", "t", "m", "p", "\"", "}">>

EvHome ==
    <<"{", "\"", "p", "w", "d", "\"", ":", "\"", "/", "h", "o", "m", "e", "\"", "}">>

\* The JSON literal null: it decodes without an error and is no object.
EvNull == <<"n", "u", "l", "l">>

\* A record longer than the scanner accepts.
EvLong ==
    <<"{", "\"", "p", "w", "d", "\"", ":", "\"", "/", "t", "m", "p", "/", "a", "b", "c", "\"", "}">>

GetLine ==
    <<"G", "E", "T", " ", "/", " ", "H", "T", "T", "P", "/", "1", ".", "1", "\r">>

\* A request line with a tab after the verb.
GetTab ==
    <<"G", "E", "T", "\t", "/", " ", "H", "T", "T", "P", "/", "1", ".", "1", "\r">>

\* A subscribe line that starts with a space.
SubLead ==
    <<" ", "S", "U", "B", "S", "C", "R", "I", "B", "E", " ", "a">>

\* The empty line that ends the headers of a request.
Blank == <<"\r">>

\* A request line without a protocol version.
GetShort == <<"G", "E", "T", " ", "/", "\r">>

\* A request for the path "/%".
GetPct ==
    <<"G", "E", "T", " ", "/", "%", "2", "5", " ", "H", "T", "T", "P", "/", "1", ".", "1", "\r">>

\* A producer or a request client: it sends its lines and hangs up.
OneShot(lines) == [lines |-> lines, hangup |-> TRUE, stall |-> FALSE]

\* A subscriber client: it sends its lines and stays until it hangs up; one
\* that may stall can also stop reading.
Stays(lines, mayStall) == [lines |-> lines, hangup |-> FALSE, stall |-> mayStall]

\* The scripts of connections 1, 2, ...; a connection beyond the tuple sends
\* nothing before it hangs up.
Workload(w) == [c \in Conns |-> IF c <= Len(w) THEN w[c] ELSE OneShot(<<>>)]

Workloads ==
    { Workload(<< Stays(<<SubTuiTmp>>, FALSE), Stays(<<SubTui>>, FALSE), OneShot(<<EvTmp>>) >>),
      Workload(<< Stays(<<SubA>>, TRUE), Stays(<<SubBTmp>>, FALSE), OneShot(<<EvTmp, EvHome>>) >>),
      Workload(<< Stays(<<SubA>>, TRUE), OneShot(<<EvTmp>>), OneShot(<<EvHome>>) >>),
      Workload(<< Stays(<<GetLine, Blank>>, FALSE), Stays(<<SubBTmp>>, FALSE), OneShot(<<EvTmp>>) >>),
      Workload(<< OneShot(<<GetTab>>), OneShot(<<GetTab>>), Stays(<<SubLead>>, FALSE) >>),
      Workload(<< Stays(<<GetShort, Blank>>, FALSE), Stays(<<GetPct, Blank>>, FALSE), OneShot(<<EvTmp, EvLong, EvHome>>) >>),
      Workload(<< Stays(<<SubA>>, FALSE), OneShot(<<EvNull, EvTmp>>) >>),
      Workload(<< Stays(<<SubA, EvTmp>>, FALSE), OneShot(<<EvHome, SubTui, GetLine>>) >>),
      Workload(<< Stays(<<SubA, PING, PING, QUIT>>, FALSE), OneShot(<<EvTmp>>) >>),
      Workload(<< OneShot(<<EvLong>>) >>) }

(***************************************************************************)
(* State.                                                                  *)
(***************************************************************************)

VARIABLES
    \* the clients
    script,        \* script[c]: what client c does
    sent,          \* sent[c]: how many of them it has sent
    \* the local sockets
    inbuf,         \* inbuf[c]: lines sent by the client and not yet read
    recv,          \* recv[c]: the writes the client has received, in order
    cliClosed,     \* cliClosed[c]: the client has closed its end
    srvClosed,     \* srvClosed[c]: the proxy has closed its end
    stalled,       \* stalled[c]: the client no longer reads; deadlined writes time out
    \* the handler goroutine of each connection
    pc,            \* pc[c]: where handleClient(c) stands
    kind,          \* kind[c]: the handler the classifier chose
    firstLine,     \* firstLine[c]: the first line as read from the socket
    data,          \* data[c]: the record processFluentbitEvent is working on
    hconn,         \* hconn[c]: the pool handle it holds, 0 for none
    returnConn,    \* returnConn[c]: processFluentbitEvent's returnConn
    subId,         \* subId[c]: handleSubscriber's subscriberID
    filt,          \* filt[c]: handleSubscriber's filter
    todo,          \* todo[c]: ids Publish's range loop has yet to visit
    deadSubs,      \* deadSubs[c]: Publish's deadSubs
    tmp,           \* tmp[c]: totalEvents as read by totalEvents++
    \* PubSubHub
    subscribers,   \* id -> [conn, filter]
    hubReaders,    \* goroutines holding subMutex for reading
    hubWaiting,    \* goroutines blocked in subMutex.Lock()
    totalEvents,
    totalSubs,
    \* the bufio.Writer and the write deadline of each subscriber's connection
    wbuf,          \* wbuf[s]: the lines subscriber.writer holds, written and not flushed
    deadline,      \* deadline[s]: a write deadline is set on the connection
    visiting,      \* visiting[c]: the id Publish's range loop is writing to, <<>> for none
    \* ConnectionPool
    idle,          \* the connections channel
    poolClosed,    \* the channel has been closed
    activeConns,
    totalSent,
    totalErrors,
    \* the downstream log-ingestion service
    hstate,        \* hstate[h]: "fresh" (not dialed yet), "open" or "closed"
    nextHandle,    \* the next handle a dial creates
    downstream,    \* the writes the service has received, in order
    \* main and Start
    mainPc,        \* where main stands: "loadTLSConfig", "RemoveAll", "Listen" (inside Start),
                   \* "accept", "Close", "drain", "Remove" or "return"
    startErr,      \* the error Start returned before its accept loop, "nil" for none
    ctxDone,       \* the root context is cancelled
    listenerOpen,
    socketFile,    \* the socket file exists
    exitCode,      \* <<>> while the process runs, then <<code>>
    \* history
    rec,           \* rec[c]: what processFluentbitEvent did for its latest record
    wrote,         \* wrote[c]: ids the current Publish pass has written to
    returned,      \* records whose Publish call has returned
    doneBefore,    \* doneBefore[c]: returned, as it was when c called Publish
    replaced,      \* replaced[c]: the connection whose Subscribe closed c's sink, 0 for none
    trail,         \* trail[c]: the forwards and the publish calls of handler c, in order
    \* the event producer
    sh,            \* the interactive shell with its preexec and precmd hooks
    hook,          \* the hook program precmd started last
    wire           \* the events the producer has sent, in order

clientVars == <<script, sent>>
sockVars == <<inbuf, recv, cliClosed, srvClosed, stalled>>
taskVars == <<pc, kind, firstLine, data, hconn, returnConn, subId, filt, todo, deadSubs, tmp>>
hubVars == <<subscribers, hubReaders, hubWaiting, totalEvents, totalSubs>>
poolVars == <<idle, poolClosed, activeConns, totalSent, totalErrors>>
netVars == <<hstate, nextHandle, downstream>>
mainVars == <<mainPc, startErr, ctxDone, listenerOpen, socketFile, exitCode>>
histVars == <<rec, wrote, returned, doneBefore, replaced, trail>>

writerVars == <<wbuf, deadline, visiting>>

hookVars == <<sh, hook, wire>>
proxyVars == <<clientVars, sockVars, taskVars, hubVars, writerVars, poolVars, netVars, mainVars, histVars>>

vars == <<proxyVars, hookVars>>

\* No shell is attached and no hook program has run.
NoShell == [pc |-> "none"]
NoHook == [pc |-> "none"]

NoRec == [fwd |-> "none", pubs |-> 0, errs |-> 0, sends |-> 0]

\* NewEnhancedTLSProxy: the proxy as constructed, with the clients that will
\* connect to it.
Constructed(workloads) ==
    /\ script \in workloads
    /\ sent = [c \in Conns |-> 0]
    /\ inbuf = [c \in Conns |-> <<>>]
    /\ recv = [c \in Conns |-> <<>>]
    /\ cliClosed = [c \in Conns |-> FALSE]
    /\ srvClosed = [c \in Conns |-> FALSE]
    /\ stalled = [c \in Conns |-> FALSE]
    /\ pc = [c \in Conns |-> "none"]
    /\ kind = [c \in Conns |-> "none"]
    /\ firstLine = [c \in Conns |-> <<>>]
    /\ data = [c \in Conns |-> <<>>]
    /\ hconn = [c \in Conns |-> 0]
    /\ returnConn = [c \in Conns |-> TRUE]
    /\ subId = [c \in Conns |-> <<>>]
    /\ filt = [c \in Conns |-> EmptyMap]
    /\ todo = [c \in Conns |-> {}]
    /\ deadSubs = [c \in Conns |-> <<>>]
    /\ tmp = [c \in Conns |-> 0]
    /\ subscribers = EmptyMap
    /\ hubReaders = {}
    /\ hubWaiting = {}
    /\ totalEvents = 0
    /\ totalSubs = 0
    /\ wbuf = [c \in Conns |-> <<>>]
    /\ deadline = [c \in Conns |-> FALSE]
    /\ visiting = [c \in Conns |-> <<>>]
    /\ idle = <<>>
    /\ poolClosed = FALSE
    /\ activeConns = 0
    /\ totalSent = 0
    /\ totalErrors = 0
    /\ hstate = [h \in Handles |-> "fresh"]
    /\ nextHandle = 1
    /\ downstream = <<>>
    /\ ctxDone = FALSE
    /\ exitCode = NoExit
    /\ rec = [c \in Conns |-> NoRec]
    /\ wrote = [c \in Conns |-> {}]
    /\ returned = {}
    /\ doneBefore = [c \in Conns |-> {}]
    /\ replaced = [c \in Conns |-> 0]
    /\ trail = [c \in Conns |-> <<>>]

\* The state once Start has bound the listener and entered its accept loop.
Started(workloads) ==
    /\ Constructed(workloads)
    /\ mainPc = "accept"
    /\ startErr = "nil"
    /\ listenerOpen = TRUE
    /\ socketFile = TRUE

InitWith(workloads) ==
    /\ Started(workloads)
    /\ sh = NoShell
    /\ hook = NoHook
    /\ wire = <<>>

Init == InitWith(Workloads)

Running == exitCode = NoExit

(***************************************************************************)
(* The clients and the downstream service.                                 *)
(***************************************************************************)

\* Client c connects to the socket and sends its first line, if it has one;
\* a one-shot client whose script ends there hangs up.
Connect(c) ==
    /\ Running
    /\ listenerOpen
    /\ pc[c] = "none"
    /\ pc' = [pc EXCEPT ![c] = "pending"]
    /\ IF script[c].lines # <<>>
       THEN /\ inbuf' = [inbuf EXCEPT ![c] = <<script[c].lines[1]>>]
            /\ sent' = [sent EXCEPT ![c] = 1]
       ELSE UNCHANGED <<inbuf, sent>>
    /\ cliClosed' = [cliClosed EXCEPT ![c] = script[c].hangup /\ Len(script[c].lines) <= 1]
    /\ UNCHANGED <<hookVars, writerVars, script, recv, srvClosed, stalled>>
    /\ UNCHANGED <<kind, firstLine, data, hconn, returnConn, subId, filt, todo, deadSubs, tmp>>
    /\ UNCHANGED <<hubVars, poolVars, netVars, mainVars, histVars>>

\* Client c sends the next line of its script; a one-shot client hangs up
\* after its last line.
ClientSend(c) ==
    /\ Running
    /\ pc[c] # "none"
    /\ ~cliClosed[c]
    /\ sent[c] >= 1
    /\ sent[c] < Len(script[c].lines)
    /\ inbuf' = [inbuf EXCEPT ![c] = Append(@, script[c].lines[sent[c] + 1])]
    /\ sent' = [sent EXCEPT ![c] = @ + 1]
    /\ cliClosed' = [cliClosed EXCEPT ![c] = script[c].hangup /\ sent[c] + 1 = Len(script[c].lines)]
    /\ UNCHANGED <<hookVars, writerVars, script, recv, srvClosed, stalled>>
    /\ UNCHANGED <<taskVars, hubVars, poolVars, netVars, mainVars, histVars>>

\* A client that stayed hangs up.
ClientClose(c) ==
    /\ Running
    /\ pc[c] # "none"
    /\ ~cliClosed[c]
    /\ ~script[c].hangup
    /\ sent[c] = Len(script[c].lines)
    /\ cliClosed' = [cliClosed EXCEPT ![c] = TRUE]
    /\ UNCHANGED <<inbuf, recv, srvClosed, stalled>>
    /\ UNCHANGED <<hookVars, writerVars, clientVars, taskVars, hubVars, poolVars, netVars, mainVars, histVars>>

\* A registered subscriber stops reading: its socket buffer is full from now on.
ClientStall(c) ==
    /\ Running
    /\ ~cliClosed[c]
    /\ ~srvClosed[c]
    /\ ~stalled[c]
    /\ script[c].stall
    /\ \E id \in DOMAIN subscribers : subscribers[id].conn = c
    /\ stalled' = [stalled EXCEPT ![c] = TRUE]
    /\ UNCHANGED <<inbuf, recv, cliClosed, srvClosed>>
    /\ UNCHANGED <<hookVars, writerVars, clientVars, taskVars, hubVars, poolVars, netVars, mainVars, histVars>>

(***************************************************************************)
(* Start's accept loop and handleClient.                                   *)
(***************************************************************************)

\* listener.Accept() returns connection c; go p.handleClient(conn).
Accept(c) ==
    /\ Running
    /\ mainPc = "accept"
    /\ listenerOpen
    /\ pc[c] = "pending"
    /\ pc' = [pc EXCEPT ![c] = "handleClient"]
    /\ UNCHANGED <<kind, firstLine, data, hconn, returnConn, subId, filt, todo, deadSubs, tmp>>
    /\ UNCHANGED <<hookVars, writerVars, clientVars, sockVars, hubVars, poolVars, netVars, mainVars, histVars>>

\* A scanner loop that classifies each line again.
StartEventDispatch(c, line) ==
    /\ data' = [data EXCEPT ![c] = line]
    /\ returnConn' = [returnConn EXCEPT ![c] = TRUE]
    /\ rec' = [rec EXCEPT ![c] = NoRec]
    /\ pc' = [pc EXCEPT ![c] = CASE Classify(line) = "sub" -> "Subscribe"
                                  [] Classify(line) = "http" -> "handleESRequest"
                                  [] OTHER -> "scan"]

\* The entry of processFluentbitEvent for the record `line`: the test parse.
\* An unparseable record is skipped (back to the scanner); a valid one goes on
\* to getConnection.
StartEvent(c, line) ==
    /\ data' = [data EXCEPT ![c] = line]
    /\ returnConn' = [returnConn EXCEPT ![c] = TRUE]
    /\ IF Unmarshal(line).ok
       THEN /\ pc' = [pc EXCEPT ![c] = "getConnection"]
            /\ rec' = [rec EXCEPT ![c] = [NoRec EXCEPT !.fwd = "started"]]
       ELSE /\ pc' = [pc EXCEPT ![c] = "scan"]
            /\ rec' = [rec EXCEPT ![c] = NoRec]

\* A reader that hands out the line that arrived last.
ReadLineLast(buf) == [line |-> buf[Len(buf)], rest |-> SubSeq(buf, 1, Len(buf) - 1)]

\* What a read of one line takes from the bytes that have arrived: the first
\* line, and the rest stays buffered.
ReadLine(buf) == [line |-> Head(buf), rest |-> Tail(buf)]

\* handleClient up to its switch: read the first line, trim it, choose the
\* handler.  A connection closed before a full line arrived is closed.
\* The first line is read through a bufio.Reader, whose read takes every
\* byte that has arrived.  The ingestion scanner and handleESRequest go on
\* reading from that reader; handleSubscriber reads the connection itself,
\* so the lines that arrived with the first one never reach it.
handleClient(c) ==
    /\ Running
    /\ pc[c] = "handleClient"
    /\ IF inbuf[c] = <<>>
       THEN /\ cliClosed[c]
            /\ pc' = [pc EXCEPT ![c] = "closed"]
            /\ srvClosed' = [srvClosed EXCEPT ![c] = TRUE]
            /\ UNCHANGED <<inbuf, kind, firstLine, data, returnConn, subId, filt, rec>>
       ELSE LET line == TrimSpace(ReadLine(inbuf[c]).line)
            IN  /\ inbuf' = [inbuf EXCEPT ![c] = IF Classify(line) = "sub"
                                                  THEN <<>>
                                                  ELSE ReadLine(@).rest]
                /\ firstLine' = [firstLine EXCEPT ![c] = ReadLine(inbuf[c]).line]
                /\ kind' = [kind EXCEPT ![c] = Classify(line)]
                /\ UNCHANGED srvClosed
                /\ CASE Classify(line) = "http" ->
                          /\ pc' = [pc EXCEPT ![c] = "handleESRequest"]
                          /\ UNCHANGED <<data, returnConn, subId, filt, rec>>
                     [] Classify(line) = "sub" ->
                          /\ pc' = [pc EXCEPT ![c] = "Subscribe"]
                          /\ subId' = [subId EXCEPT ![c] = SubscriberID(line)]
                          /\ filt' = [filt EXCEPT ![c] = ParseFilter(FilterStr(line))]
                          /\ UNCHANGED <<data, returnConn, rec>>
                     [] Classify(line) = "ingest" ->
                          /\ StartEvent(c, line)
                          /\ UNCHANGED <<subId, filt>>
    /\ UNCHANGED <<recv, cliClosed, stalled, hconn, todo, deadSubs, tmp>>
    /\ UNCHANGED <<wrote, returned, doneBefore, replaced, trail>>
    /\ UNCHANGED <<hookVars, writerVars, clientVars, hubVars, poolVars, netVars, mainVars>>

\* A scanner without a limit on the length of a line.
TooLongNever(line) == FALSE

\* Whether scanner.Scan() gives up on the line (bufio.ErrTooLong): it does
\* when its buffer of MaxScanTokenSize bytes is full and holds no newline.
TooLong(line) == Len(line) >= MaxScanTokenSize

\* The scanner loop of the ingestion branch: the next line, empty lines
\* skipped; when Scan() returns false, at end of input or on a line that is
\* too long, handleClient returns and closes the connection.
scan(c) ==
    /\ Running
    /\ pc[c] = "scan"
    /\ IF inbuf[c] = <<>>
       THEN /\ cliClosed[c]
            /\ pc' = [pc EXCEPT ![c] = "closed"]
            /\ srvClosed' = [srvClosed EXCEPT ![c] = TRUE]
            /\ UNCHANGED <<inbuf, data, returnConn, rec>>
       ELSE LET line == DropCR(ReadLine(inbuf[c]).line)
            IN  /\ inbuf' = [inbuf EXCEPT ![c] = ReadLine(@).rest]
                /\ IF TooLong(ReadLine(inbuf[c]).line)
                   THEN /\ pc' = [pc EXCEPT ![c] = "closed"]
                        /\ srvClosed' = [srvClosed EXCEPT ![c] = TRUE]
                        /\ UNCHANGED <<data, returnConn, rec>>
                   ELSE /\ UNCHANGED srvClosed
                        /\ IF Len(line) = 0
                           THEN UNCHANGED <<pc, data, returnConn, rec>>
                           ELSE StartEvent(c, line)
    /\ UNCHANGED <<recv, cliClosed, stalled>>
    /\ UNCHANGED <<kind, firstLine, hconn, subId, filt, todo, deadSubs, tmp>>
    /\ UNCHANGED <<wrote, returned, doneBefore, replaced, trail>>
    /\ UNCHANGED <<hookVars, writerVars, clientVars, hubVars, poolVars, netVars, mainVars>>

(***************************************************************************)
(* handleESRequest.  What the proxy writes to the client is kept in parts: *)
(* the status line, the header block (which names the chunks of the body   *)
(* it announces), the empty line and the chunks of the body.               *)
(***************************************************************************)

HTTP11 == <<"H", "T", "T", "P", "/", "1", ".", "1">>

HTTP10 == <<"H", "T", "T", "P", "/", "1", ".", "0">>

\* url.PathUnescape on paths whose only escape is %25: [ok, path]; a "%"
\* that starts no escape is an error.
RECURSIVE Unescape(_)
Unescape(s) ==
    IF s = <<>> THEN [ok |-> TRUE, path |-> <<>>]
    ELSE IF Head(s) # "%"
    THEN LET r == Unescape(Tail(s))
         IN  [ok |-> r.ok, path |-> <<Head(s)>> \o r.path]
    ELSE IF Len(s) >= 3 /\ s[2] = "2" /\ s[3] = "5"
    THEN LET r == Unescape(From(s, 4))
         IN  [ok |-> r.ok, path |-> <<"%">> \o r.path]
    ELSE [ok |-> FALSE, path |-> <<>>]

\* http.ReadRequest on the request line and the header lines, for requests
\* without a body whose target is a path: the line is method, target and
\* version with one space between them, and every header line has a colon.
ReadRequest(line, headers) ==
    LET a == SplitN2(line, " ")
        b == IF Len(a) = 2 THEN SplitN2(a[2], " ") ELSE <<>>
    IN  IF /\ Len(b) = 2
           /\ a[1] # <<>>
           /\ b[2] \in {HTTP11, HTTP10}
           /\ HasPrefix(b[1], <<"/">>)
           /\ Unescape(b[1]).ok
           /\ \A i \in 1..Len(headers) : IndexFrom(headers[i], ":", 1) > 1
        THEN [ok |-> TRUE, method |-> a[1], path |-> Unescape(b[1]).path]
        ELSE [ok |-> FALSE, method |-> <<>>, path |-> <<>>]

\* Whether http.NewRequest accepts esBaseURL + path: url.Parse rejects a "%"
\* that starts no escape.
NewRequest(path) == Unescape(path).ok

\* The body of every upstream response of the model, in chunks.
Body == <<"chunk1", "chunk2">>

\* What esHTTPClient.Do and the copy of the body can come to: Do fails, or
\* it returns a response whose body is read up to `copied` chunks (the read
\* fails before the end when the upstream goes away or the client's 30 s
\* timeout expires).
Upstream ==
    {[err |-> TRUE, status |-> "", copied |-> 0]} \cup
    [err : {FALSE}, status : {"200 OK", "404 Not Found"}, copied : 0..Len(Body)]

\* The one write of writeHTTPError.
writeHTTPError(code) ==
    << <<"HTTP/1.1", code>>, <<"Content-Length", "message">>, <<"">>, <<"message">> >>

\* The writes of writeHTTPResponse: status line, headers, empty line, and
\* the chunks io.Copy got from the upstream.
writeHTTPResponse(status, copied) ==
    << <<"HTTP/1.1", status>>, <<"Content-Length">> \o Body, <<"">> >>
        \o [k \in 1..copied |-> <<Body[k]>>]

\* The end of handleESRequest: the parts are written to client c, if it is
\* still there, and handleClient's deferred Close runs.
Respond(c, parts) ==
    /\ recv' = [recv EXCEPT ![c] = IF cliClosed[c] THEN @ ELSE @ \o parts]
    /\ pc' = [pc EXCEPT ![c] = "closed"]
    /\ srvClosed' = [srvClosed EXCEPT ![c] = TRUE]

\* The index of the first empty line in buf, 0 if there is none.
BlankAt(buf) ==
    IF \E k \in 1..Len(buf) : DropCR(buf[k]) = <<>>
    THEN CHOOSE k \in 1..Len(buf) : DropCR(buf[k]) = <<>> /\ \A j \in 1..(k - 1) : DropCR(buf[j]) # <<>>
    ELSE 0

\* handleESRequest up to the upstream call: parseHTTPRequest reads the
\* header lines up to the empty line (a connection closed before it is a
\* read error) and parses the request, http.NewRequest builds the outbound
\* one; 400 and 500 are answered here.
handleESRequest(c) ==
    /\ Running
    /\ pc[c] = "handleESRequest"
    /\ BlankAt(inbuf[c]) > 0 \/ cliClosed[c]
    /\ LET k == BlankAt(inbuf[c])
           req == ReadRequest(TrimSpace(firstLine[c]), SubSeq(inbuf[c], 1, k - 1))
       IN  /\ inbuf' = [inbuf EXCEPT ![c] = IF k = 0 THEN <<>> ELSE From(@, k + 1)]
           /\ IF k = 0 \/ ~req.ok
              THEN Respond(c, writeHTTPError("400"))
              ELSE IF ~NewRequest(req.path)
              THEN Respond(c, writeHTTPError("500"))
              ELSE /\ pc' = [pc EXCEPT ![c] = "Do"]
                   /\ UNCHANGED <<recv, srvClosed>>
    /\ UNCHANGED <<cliClosed, stalled>>
    /\ UNCHANGED <<kind, firstLine, data, hconn, returnConn, subId, filt, todo, deadSubs, tmp>>
    /\ UNCHANGED <<hookVars, writerVars, clientVars, hubVars, poolVars, netVars, mainVars, histVars>>

\* What a step of the request-proxy handler leaves alone besides the hub
\* and the pool.
ProxyFrame ==
    /\ UNCHANGED <<inbuf, cliClosed, stalled>>
    /\ UNCHANGED <<kind, firstLine, data, hconn, returnConn, subId, filt, todo, deadSubs, tmp>>
    /\ UNCHANGED <<hookVars, writerVars, clientVars, netVars, mainVars, histVars>>

\* A handler that counts the request as a published event.
DoPublishing(c) ==
    /\ Running
    /\ pc[c] = "Do"
    /\ Respond(c, writeHTTPError("502"))
    /\ totalEvents' = totalEvents + 1
    /\ UNCHANGED <<subscribers, hubReaders, hubWaiting, totalSubs, poolVars>>
    /\ ProxyFrame

\* The rest of handleESRequest: esHTTPClient.Do over the client's own
\* transport; 502 if it fails, else writeHTTPResponse, which stops at the
\* first failed read of the body.
Do(c) ==
    /\ Running
    /\ pc[c] = "Do"
    /\ \E r \in Upstream :
          IF r.err
          THEN Respond(c, writeHTTPError("502"))
          ELSE Respond(c, writeHTTPResponse(r.status, r.copied))
    /\ UNCHANGED <<hubVars, poolVars>>
    /\ ProxyFrame

(***************************************************************************)
(* ConnectionPool and processFluentbitEvent.                               *)
(***************************************************************************)

\* An unrecovered panic in a goroutine ends the process with exit code 2:
\* the actions below set exitCode to 2 where the code panics.

\* The results the liveness probe (a zero-length write with a 100 ms
\* deadline) can have on an idle handle: the peer may be gone, noticed or not.
ProbeResults == {TRUE, FALSE}

\* A select that waits for its channel.
HasDefaultNever == FALSE

\* Whether a select of the pool can proceed when its channel operation
\* cannot: the selects of getConnection and returnConnection have a default
\* case.
HasDefault == TRUE

\* getConnection's select: take an idle handle and probe it, or fall through
\* to the dial.  A receive on the closed, drained channel yields nil, and the
\* probe on nil panics.
getConnection(c) ==
    /\ Running
    /\ pc[c] = "getConnection"
    /\ idle # <<>> \/ poolClosed \/ HasDefault
    /\ IF idle # <<>>
       THEN \E alive \in ProbeResults :
              /\ idle' = Tail(idle)
              /\ hconn' = [hconn EXCEPT ![c] = Head(idle)]
              /\ IF alive
                 THEN /\ pc' = [pc EXCEPT ![c] = "write"]
                      /\ UNCHANGED hstate
                 ELSE /\ pc' = [pc EXCEPT ![c] = "probeFailed"]
                      /\ hstate' = [hstate EXCEPT ![Head(idle)] = "closed"]
              /\ UNCHANGED <<mainVars>>
       ELSE IF poolClosed
       THEN /\ exitCode' = <<2>>
            /\ UNCHANGED <<startErr, mainPc, ctxDone, listenerOpen, socketFile>>
            /\ UNCHANGED <<idle, hconn, pc, hstate>>
       ELSE /\ pc' = [pc EXCEPT ![c] = "dial"]
            /\ UNCHANGED <<idle, hconn, hstate, mainVars>>
    /\ UNCHANGED <<poolClosed, activeConns, totalSent, totalErrors>>
    /\ UNCHANGED <<nextHandle, downstream>>
    /\ UNCHANGED <<kind, firstLine, data, returnConn, subId, filt, todo, deadSubs, tmp>>
    /\ UNCHANGED <<hookVars, writerVars, clientVars, sockVars, hubVars, histVars>>

\* getConnection after a failed probe: activeConns-- under the pool's mutex.
probeFailed(c) ==
    /\ Running
    /\ pc[c] = "probeFailed"
    /\ activeConns' = activeConns - 1
    /\ hconn' = [hconn EXCEPT ![c] = 0]
    /\ pc' = [pc EXCEPT ![c] = "dial"]
    /\ UNCHANGED <<idle, poolClosed, totalSent, totalErrors>>
    /\ UNCHANGED <<kind, firstLine, data, returnConn, subId, filt, todo, deadSubs, tmp>>
    /\ UNCHANGED <<hookVars, writerVars, clientVars, sockVars, hubVars, netVars, mainVars, histVars>>

\* The results tls.DialWithDialer can have: the service may be unreachable,
\* and it is once it has let the proxy in MaxHandles times.
DialResults == IF nextHandle <= MaxHandles THEN {TRUE, FALSE} ELSE {FALSE}

\* The results the forward's write can have: it fails if the peer is gone.
WriteResults == {TRUE, FALSE}

\* getConnection's dial.  On failure it counts an error (totalErrors++) and
\* returns it.
dial(c) ==
    /\ Running
    /\ pc[c] = "dial"
    /\ \E ok \in DialResults :
       IF ok
       THEN /\ hconn' = [hconn EXCEPT ![c] = nextHandle]
            /\ hstate' = [hstate EXCEPT ![nextHandle] = "open"]
            /\ nextHandle' = nextHandle + 1
            /\ pc' = [pc EXCEPT ![c] = "dialed"]
            /\ UNCHANGED <<totalErrors, rec>>
       ELSE /\ totalErrors' = totalErrors + 1
            /\ rec' = [rec EXCEPT ![c].errs = @ + 1]
            /\ pc' = [pc EXCEPT ![c] = "acquireFailed"]
            /\ UNCHANGED <<hconn, hstate, nextHandle>>
    /\ UNCHANGED <<idle, poolClosed, activeConns, totalSent>>
    /\ UNCHANGED downstream
    /\ UNCHANGED <<kind, firstLine, data, returnConn, subId, filt, todo, deadSubs, tmp>>
    /\ UNCHANGED <<wrote, returned, doneBefore, replaced, trail>>
    /\ UNCHANGED <<hookVars, writerVars, clientVars, sockVars, hubVars, mainVars>>

\* getConnection after a successful dial: activeConns++ under the mutex.
dialed(c) ==
    /\ Running
    /\ pc[c] = "dialed"
    /\ activeConns' = activeConns + 1
    /\ pc' = [pc EXCEPT ![c] = "write"]
    /\ UNCHANGED <<idle, poolClosed, totalSent, totalErrors>>
    /\ UNCHANGED <<kind, firstLine, data, hconn, returnConn, subId, filt, todo, deadSubs, tmp>>
    /\ UNCHANGED <<hookVars, writerVars, clientVars, sockVars, hubVars, netVars, mainVars, histVars>>

\* processFluentbitEvent when getConnection failed: totalErrors++ and return
\* the error, before anything is published.
acquireFailed(c) ==
    /\ Running
    /\ pc[c] = "acquireFailed"
    /\ totalErrors' = totalErrors + 1
    /\ rec' = [rec EXCEPT ![c].errs = @ + 1, ![c].fwd = "acquireFailed"]
    /\ pc' = [pc EXCEPT ![c] = "scan"]
    /\ UNCHANGED <<idle, poolClosed, activeConns, totalSent>>
    /\ UNCHANGED <<kind, firstLine, data, hconn, returnConn, subId, filt, todo, deadSubs, tmp>>
    /\ UNCHANGED <<wrote, returned, doneBefore, replaced, trail>>
    /\ UNCHANGED <<hookVars, writerVars, clientVars, sockVars, hubVars, netVars, mainVars>>

LineBare(record) == record

\* The bytes one forward or one publish writes: the record and a newline.
Line(record) == record \o Newline

\* The forward: conn.Write(append(data, '\n')) with the 5 s deadline.  It
\* fails when the peer is gone, and then returnConn = false.
write(c) ==
    /\ Running
    /\ pc[c] = "write"
    /\ \E ok \in WriteResults :
       IF ok
       THEN /\ downstream' = Append(downstream, Line(data[c]))
            /\ trail' = [trail EXCEPT ![c] = Append(@, <<"forward", data[c]>>)]
            /\ pc' = [pc EXCEPT ![c] = "sent"]
            /\ UNCHANGED returnConn
       ELSE /\ returnConn' = [returnConn EXCEPT ![c] = FALSE]
            /\ pc' = [pc EXCEPT ![c] = "writeFailed"]
            /\ UNCHANGED <<downstream, trail>>
    /\ UNCHANGED <<hstate, nextHandle>>
    /\ UNCHANGED <<kind, firstLine, data, hconn, subId, filt, todo, deadSubs, tmp>>
    /\ UNCHANGED <<rec, wrote, returned, doneBefore, replaced>>
    /\ UNCHANGED <<hookVars, writerVars, clientVars, sockVars, hubVars, poolVars, mainVars>>

\* After a failed forward: totalErrors++ and return the error; the deferred
\* release follows.
writeFailed(c) ==
    /\ Running
    /\ pc[c] = "writeFailed"
    /\ totalErrors' = totalErrors + 1
    /\ rec' = [rec EXCEPT ![c].errs = @ + 1, ![c].fwd = "writeFailed"]
    /\ pc' = [pc EXCEPT ![c] = "release"]
    /\ UNCHANGED <<idle, poolClosed, activeConns, totalSent>>
    /\ UNCHANGED <<kind, firstLine, data, hconn, returnConn, subId, filt, todo, deadSubs, tmp>>
    /\ UNCHANGED <<wrote, returned, doneBefore, replaced, trail>>
    /\ UNCHANGED <<hookVars, writerVars, clientVars, sockVars, hubVars, netVars, mainVars>>

\* After a successful forward: totalSent++, then Publish.
sentOK(c) ==
    /\ Running
    /\ pc[c] = "sent"
    /\ totalSent' = totalSent + 1
    /\ rec' = [rec EXCEPT ![c].sends = @ + 1, ![c].fwd = "forwarded"]
    /\ pc' = [pc EXCEPT ![c] = "Publish"]
    /\ UNCHANGED <<idle, poolClosed, activeConns, totalErrors>>
    /\ UNCHANGED <<kind, firstLine, data, hconn, returnConn, subId, filt, todo, deadSubs, tmp>>
    /\ UNCHANGED <<wrote, returned, doneBefore, replaced, trail>>
    /\ UNCHANGED <<hookVars, writerVars, clientVars, sockVars, hubVars, netVars, mainVars>>

\* A cache without a capacity.
HasRoomAlways == TRUE

\* Whether the send of returnConnection's select can proceed: the channel,
\* made with capacity PoolSize, is not full.
HasRoom == Len(idle) < PoolSize

\* A release that caches the handle and keeps it as well.
returnConnectionKeep(c) ==
    IF poolClosed
    THEN /\ exitCode' = <<2>>
         /\ UNCHANGED <<startErr, mainPc, ctxDone, listenerOpen, socketFile>>
         /\ UNCHANGED <<idle, hconn, pc, hstate>>
    ELSE IF HasRoom
    THEN /\ idle' = Append(idle, hconn[c])
         /\ pc' = [pc EXCEPT ![c] = "scan"]
         /\ UNCHANGED <<hconn, hstate, mainVars>>
    ELSE /\ hstate' = [hstate EXCEPT ![hconn[c]] = "closed"]
         /\ pc' = [pc EXCEPT ![c] = "released"]
         /\ UNCHANGED <<idle, hconn, mainVars>>

\* returnConnection's select: the handle goes back to the channel if there
\* is room, and is closed otherwise.  A send on the closed channel panics.
returnConnection(c) ==
    IF poolClosed
    THEN /\ exitCode' = <<2>>
         /\ UNCHANGED <<startErr, mainPc, ctxDone, listenerOpen, socketFile>>
         /\ UNCHANGED <<idle, hconn, pc, hstate>>
    ELSE IF HasRoom
    THEN /\ idle' = Append(idle, hconn[c])
         /\ hconn' = [hconn EXCEPT ![c] = 0]
         /\ pc' = [pc EXCEPT ![c] = "scan"]
         /\ UNCHANGED <<hstate, mainVars>>
    ELSE /\ hstate' = [hstate EXCEPT ![hconn[c]] = "closed"]
         /\ pc' = [pc EXCEPT ![c] = "released"]
         /\ UNCHANGED <<idle, hconn, mainVars>>

\* The deferred function of processFluentbitEvent: returnConnection(conn) if
\* returnConn, else conn.Close() (its activeConns-- is the next step).
release(c) ==
    /\ Running
    /\ pc[c] = "release"
    /\ returnConn[c] => (HasRoom \/ poolClosed \/ HasDefault)
    /\ IF returnConn[c]
       THEN returnConnection(c)
       ELSE /\ hstate' = [hstate EXCEPT ![hconn[c]] = "closed"]
            /\ pc' = [pc EXCEPT ![c] = "released"]
            /\ UNCHANGED <<idle, hconn, mainVars>>
    /\ UNCHANGED <<poolClosed, activeConns, totalSent, totalErrors>>
    /\ UNCHANGED <<nextHandle, downstream>>
    /\ UNCHANGED <<kind, firstLine, data, returnConn, subId, filt, todo, deadSubs, tmp>>
    /\ UNCHANGED <<hookVars, writerVars, clientVars, sockVars, hubVars, histVars>>

\* activeConns-- under the mutex, after the handle was closed on release.
released(c) ==
    /\ Running
    /\ pc[c] = "released"
    /\ activeConns' = activeConns - 1
    /\ hconn' = [hconn EXCEPT ![c] = 0]
    /\ pc' = [pc EXCEPT ![c] = "scan"]
    /\ UNCHANGED <<idle, poolClosed, totalSent, totalErrors>>
    /\ UNCHANGED <<kind, firstLine, data, returnConn, subId, filt, todo, deadSubs, tmp>>
    /\ UNCHANGED <<hookVars, writerVars, clientVars, sockVars, hubVars, netVars, mainVars, histVars>>

(***************************************************************************)
(* PubSubHub.  subMutex is a sync.RWMutex: RLock waits while a writer holds *)
(* or awaits the lock, Lock waits until no reader holds it.  The sections  *)
(* under the write lock (the bodies of Subscribe and Unsubscribe) do no     *)
(* blocking call and are single steps.                                     *)
(***************************************************************************)

\* Whether a write with the 100 ms deadline to connection s succeeds.
SinkWritable(s) == ~srvClosed[s] /\ ~cliClosed[s] /\ ~stalled[s]

\* A sink that puts the latest write first.
SinkWriteFirst(buf, bytes) == <<bytes>> \o buf

\* What a sink holds after one more write.
SinkWrite(buf, bytes) == Append(buf, bytes)

\* Publish's entry: RLock, and the return when there is no subscriber.
Publish(c) ==
    /\ Running
    /\ pc[c] = "Publish"
    /\ hubWaiting = {}
    /\ rec' = [rec EXCEPT ![c].pubs = @ + 1]
    /\ doneBefore' = [doneBefore EXCEPT ![c] = returned]
    /\ wrote' = [wrote EXCEPT ![c] = {}]
    /\ trail' = [trail EXCEPT ![c] = Append(@, <<"publish", data[c]>>)]
    /\ IF DOMAIN subscribers = {}
       THEN /\ pc' = [pc EXCEPT ![c] = "release"]
            /\ returned' = returned \cup {data[c]}
            /\ UNCHANGED <<hubReaders, todo, deadSubs>>
       ELSE /\ pc' = [pc EXCEPT ![c] = "pass"]
            /\ hubReaders' = hubReaders \cup {c}
            /\ todo' = [todo EXCEPT ![c] = DOMAIN subscribers]
            /\ deadSubs' = [deadSubs EXCEPT ![c] = <<>>]
            /\ UNCHANGED returned
    /\ UNCHANGED <<subscribers, hubWaiting, totalEvents, totalSubs>>
    /\ UNCHANGED <<kind, firstLine, data, hconn, returnConn, subId, filt, tmp>>
    /\ UNCHANGED replaced
    /\ UNCHANGED <<hookVars, writerVars, clientVars, sockVars, poolVars, netVars, mainVars>>

\* A Publish that leaves its dead subscribers where they are.
AfterPassNoReap(dead) == "count"

\* Where Publish goes once its range loop is over: to the reaping of
\* deadSubs if there are any, else to totalEvents++.
AfterPass(dead) == IF dead = <<>> THEN "count" ELSE "reap"

\* Whether another Publish is inside its write to the connection s: it has
\* called writer.Write and its Flush has not returned.
Raced(c, s) ==
    \E d \in Conns \ {c} :
        pc[d] = "Flush" /\ subscribers[visiting[d]].conn = s

\* Two lines copied into the writer's buffer at the same offset: the head
\* of one and the tail of the other.
Torn(a, b) ==
    SubSeq(a, 1, Len(a) - 4) \o SubSeq(b, Len(b) - 3, Len(b))

\* What subscriber.writer can hold after Write(line).  bufio.Writer is not
\* made for concurrent use and Publish holds only the read lock: when
\* another Publish is inside its write to the same connection, the copy
\* into the buffer and the update of its length race, and the line is
\* appended, or replaces what was buffered, or is itself lost, or the
\* bytes of the two lines mix.
Buffered(buf, line, raced) ==
    IF raced
    THEN {Append(buf, line), <<line>>, buf}
         \cup (IF buf = <<>> THEN {} ELSE {<<Torn(buf[Len(buf)], line)>>})
    ELSE {Append(buf, line)}

\* The connection's writes after the writer has flushed its lines.
RECURSIVE SinkWriteAll(_, _)
SinkWriteAll(buf, lines) ==
    IF lines = <<>> THEN buf
    ELSE SinkWriteAll(SinkWrite(buf, Head(lines)), Tail(lines))

\* One iteration of Publish's range loop, over a subscriber the loop has not
\* visited yet (a Go map is ranged over in no fixed order): skip it if the
\* filter does not match, else set the 100 ms deadline on its connection and
\* Write the record and a newline to its writer.
pass(c) ==
    /\ Running
    /\ pc[c] = "pass"
    /\ \E id \in todo[c] :
         LET sub == subscribers[id]
             event == Unmarshal(data[c]).obj
             left == todo[c] \ {id}
         IN  /\ todo' = [todo EXCEPT ![c] = left]
             /\ IF matchesFilter(event, sub.filter)
                THEN /\ wrote' = [wrote EXCEPT ![c] = @ \cup {id}]
                     /\ visiting' = [visiting EXCEPT ![c] = id]
                     /\ deadline' = [deadline EXCEPT ![sub.conn] = TRUE]
                     /\ \E buf \in Buffered(wbuf[sub.conn], Line(data[c]), Raced(c, sub.conn)) :
                            wbuf' = [wbuf EXCEPT ![sub.conn] = buf]
                     /\ pc' = [pc EXCEPT ![c] = "Flush"]
                ELSE /\ pc' = [pc EXCEPT ![c] = IF left = {} THEN AfterPass(deadSubs[c]) ELSE "pass"]
                     /\ UNCHANGED <<wrote, writerVars>>
    /\ UNCHANGED deadSubs
    /\ UNCHANGED <<inbuf, recv, cliClosed, srvClosed, stalled>>
    /\ UNCHANGED <<kind, firstLine, data, hconn, returnConn, subId, filt, tmp>>
    /\ UNCHANGED <<rec, returned, doneBefore, replaced, trail>>
    /\ UNCHANGED <<hookVars, clientVars, hubVars, poolVars, netVars, mainVars>>

\* writer.Flush() and SetWriteDeadline(time.Time{}): the buffered lines go
\* to the connection in one write and the buffer is emptied; a failed write
\* notes the subscriber dead.  A Flush that finds the buffer empty writes
\* nothing and reports no error.  With another Publish inside its write to
\* the same connection, that one may flush the same bytes again before the
\* buffer is emptied.  A write to a client that does not read ends at the
\* deadline, and never if another Publish has cleared the deadline.
Flush(c) ==
    /\ Running
    /\ pc[c] = "Flush"
    /\ LET id == visiting[c]
           s == subscribers[id].conn
           ok == wbuf[s] = <<>> \/ SinkWritable(s)
           dead == IF ok THEN deadSubs[c] ELSE Append(deadSubs[c], id)
       IN  /\ wbuf[s] = <<>> \/ ~stalled[s] \/ srvClosed[s] \/ cliClosed[s] \/ deadline[s]
           /\ recv' = IF ok THEN [recv EXCEPT ![s] = SinkWriteAll(@, wbuf[s])] ELSE recv
           /\ \E emptied \in (IF Raced(c, s) THEN BOOLEAN ELSE {TRUE}) :
                 wbuf' = IF ok /\ emptied THEN [wbuf EXCEPT ![s] = <<>>] ELSE wbuf
           /\ deadline' = [deadline EXCEPT ![s] = FALSE]
           /\ deadSubs' = [deadSubs EXCEPT ![c] = dead]
           /\ visiting' = [visiting EXCEPT ![c] = <<>>]
           /\ pc' = [pc EXCEPT ![c] = IF todo[c] = {} THEN AfterPass(dead) ELSE "pass"]
    /\ UNCHANGED <<inbuf, cliClosed, srvClosed, stalled>>
    /\ UNCHANGED <<kind, firstLine, data, hconn, returnConn, subId, filt, todo, tmp>>
    /\ UNCHANGED <<hookVars, clientVars, hubVars, poolVars, netVars, mainVars, histVars>>

\* totalEvents++, the read: Publish holds only the read lock here.
count(c) ==
    /\ Running
    /\ pc[c] = "count"
    /\ tmp' = [tmp EXCEPT ![c] = totalEvents]
    /\ pc' = [pc EXCEPT ![c] = "countStore"]
    /\ UNCHANGED <<kind, firstLine, data, hconn, returnConn, subId, filt, todo, deadSubs>>
    /\ UNCHANGED <<hookVars, writerVars, clientVars, sockVars, hubVars, poolVars, netVars, mainVars, histVars>>

\* totalEvents++, the write; then Publish returns and its deferred RUnlock runs.
countStore(c) ==
    /\ Running
    /\ pc[c] = "countStore"
    /\ totalEvents' = tmp[c] + 1
    /\ hubReaders' = hubReaders \ {c}
    /\ returned' = returned \cup {data[c]}
    /\ pc' = [pc EXCEPT ![c] = "release"]
    /\ UNCHANGED <<subscribers, hubWaiting, totalSubs>>
    /\ UNCHANGED <<kind, firstLine, data, hconn, returnConn, subId, filt, todo, deadSubs, tmp>>
    /\ UNCHANGED <<rec, wrote, doneBefore, replaced, trail>>
    /\ UNCHANGED <<hookVars, writerVars, clientVars, sockVars, poolVars, netVars, mainVars>>

\* The goroutines about to call subMutex.Lock().
WantsLock(c) == pc[c] \in {"Subscribe", "Unsubscribe", "reap"}

\* subMutex.Lock() while a reader holds the lock: the caller blocks, and
\* from now on no new reader gets in.
LockWait(c) ==
    /\ Running
    /\ WantsLock(c)
    /\ hubReaders # {}
    /\ c \notin hubWaiting
    /\ hubWaiting' = hubWaiting \cup {c}
    /\ UNCHANGED <<subscribers, hubReaders, totalEvents, totalSubs>>
    /\ UNCHANGED <<hookVars, writerVars, clientVars, sockVars, taskVars, poolVars, netVars, mainVars, histVars>>

\* The sockets after conn.Close() on the sink registered for id, if any.
CloseSinkOf(id) ==
    IF id \in DOMAIN subscribers
    THEN [srvClosed EXCEPT ![subscribers[id].conn] = TRUE]
    ELSE srvClosed

MapDeleteAll(m, id) == [k \in {} |-> m[k]]

\* The subscribers map after delete(hub.subscribers, id).
MapDelete(m, id) == [k \in DOMAIN m \ {id} |-> m[k]]

\* PubSubHub.Subscribe, called by handleSubscriber: under the write lock,
\* close the sink already registered for the id, register the new one,
\* totalSubs++.
Subscribe(c) ==
    /\ Running
    /\ pc[c] = "Subscribe"
    /\ hubReaders = {}
    /\ srvClosed' = CloseSinkOf(subId[c])
    /\ subscribers' = MapPut(subscribers, subId[c], [conn |-> c, filter |-> filt[c]])
    /\ totalSubs' = totalSubs + 1
    /\ hubWaiting' = hubWaiting \ {c}
    /\ replaced' = IF subId[c] \in DOMAIN subscribers
                   THEN [replaced EXCEPT ![subscribers[subId[c]].conn] = c]
                   ELSE replaced
    /\ pc' = [pc EXCEPT ![c] = "ack"]
    /\ UNCHANGED <<hubReaders, totalEvents>>
    /\ UNCHANGED <<inbuf, recv, cliClosed, stalled>>
    /\ UNCHANGED <<kind, firstLine, data, hconn, returnConn, subId, filt, todo, deadSubs, tmp>>
    /\ UNCHANGED <<rec, wrote, returned, doneBefore, trail>>
    /\ UNCHANGED <<hookVars, writerVars, clientVars, poolVars, netVars, mainVars>>

\* handleSubscriber's acknowledgement, written straight to the connection.
\* The write has no deadline: it waits while the client does not read, and
\* its error on a closed connection is ignored.
ack(c) ==
    /\ Running
    /\ pc[c] = "ack"
    /\ ~stalled[c] \/ srvClosed[c] \/ cliClosed[c]
    /\ recv' = IF SinkWritable(c)
               THEN [recv EXCEPT ![c] = Append(@, Subscribed(subId[c]))]
               ELSE recv
    /\ pc' = [pc EXCEPT ![c] = "control"]
    /\ UNCHANGED <<inbuf, cliClosed, srvClosed, stalled>>
    /\ UNCHANGED <<kind, firstLine, data, hconn, returnConn, subId, filt, todo, deadSubs, tmp>>
    /\ UNCHANGED <<hookVars, writerVars, clientVars, hubVars, poolVars, netVars, mainVars, histVars>>

\* handleSubscriber's control loop: PING is answered with PONG, QUIT leaves
\* the loop, any other line is ignored; the loop also ends when the read
\* fails (the connection was closed by either side) or a line is too long
\* for the scanner.
control(c) ==
    /\ Running
    /\ pc[c] = "control"
    /\ IF srvClosed[c]
       THEN /\ pc' = [pc EXCEPT ![c] = "Unsubscribe"]
            /\ UNCHANGED <<inbuf, recv>>
       ELSE IF inbuf[c] # <<>>
       THEN LET line == TrimSpace(ReadLine(inbuf[c]).line)
            IN  /\ inbuf' = [inbuf EXCEPT ![c] = ReadLine(@).rest]
                /\ recv' = IF line = PING /\ SinkWritable(c) /\ ~TooLong(ReadLine(inbuf[c]).line)
                           THEN [recv EXCEPT ![c] = Append(@, PONG)]
                           ELSE recv
                /\ pc' = [pc EXCEPT ![c] = IF line = QUIT \/ TooLong(ReadLine(inbuf[c]).line)
                                            THEN "Unsubscribe"
                                            ELSE "control"]
       ELSE /\ cliClosed[c]
            /\ pc' = [pc EXCEPT ![c] = "Unsubscribe"]
            /\ UNCHANGED <<inbuf, recv>>
    /\ UNCHANGED <<cliClosed, srvClosed, stalled>>
    /\ UNCHANGED <<kind, firstLine, data, hconn, returnConn, subId, filt, todo, deadSubs, tmp>>
    /\ UNCHANGED <<hookVars, writerVars, clientVars, hubVars, poolVars, netVars, mainVars, histVars>>

\* PubSubHub.Unsubscribe(id): under the write lock, close the sink registered
\* for id and delete the entry, whichever connection registered it.  It is
\* called by handleSubscriber's deferred cleanup with its own id (the
\* connection's own deferred Close follows), and by Publish for the first
\* of its deadSubs while Publish still holds the read lock.
Unsubscribe(c) ==
    /\ Running
    /\ pc[c] \in {"Unsubscribe", "reap"}
    /\ hubReaders = {}
    /\ LET id == IF pc[c] = "reap" THEN Head(deadSubs[c]) ELSE subId[c]
       IN  /\ subscribers' = IF id \in DOMAIN subscribers
                             THEN MapDelete(subscribers, id)
                             ELSE subscribers
           /\ srvClosed' = IF pc[c] = "reap"
                           THEN CloseSinkOf(id)
                           ELSE [CloseSinkOf(id) EXCEPT ![c] = TRUE]
    /\ hubWaiting' = hubWaiting \ {c}
    /\ IF pc[c] = "reap"
       THEN /\ deadSubs' = [deadSubs EXCEPT ![c] = Tail(@)]
            /\ pc' = [pc EXCEPT ![c] = AfterPass(Tail(deadSubs[c]))]
       ELSE /\ pc' = [pc EXCEPT ![c] = "closed"]
            /\ UNCHANGED deadSubs
    /\ UNCHANGED <<hubReaders, totalEvents, totalSubs>>
    /\ UNCHANGED <<inbuf, recv, cliClosed, stalled>>
    /\ UNCHANGED <<kind, firstLine, data, hconn, returnConn, subId, filt, todo, tmp>>
    /\ UNCHANGED <<hookVars, writerVars, clientVars, poolVars, netVars, mainVars, histVars>>

(***************************************************************************)
(* The next-state relation of the running proxy.                           *)
(***************************************************************************)

ClientStep(c) ==
    \/ Connect(c)
    \/ ClientSend(c)
    \/ ClientClose(c)
    \/ ClientStall(c)

\* The steps of the handler goroutine of connection c.
HandlerStep(c) ==
    \/ handleClient(c)
    \/ scan(c)
    \/ handleESRequest(c)
    \/ Do(c)
    \/ getConnection(c)
    \/ probeFailed(c)
    \/ dial(c)
    \/ dialed(c)
    \/ acquireFailed(c)
    \/ write(c)
    \/ writeFailed(c)
    \/ sentOK(c)
    \/ release(c)
    \/ released(c)
    \/ Publish(c)
    \/ pass(c)
    \/ Flush(c)
    \/ count(c)
    \/ countStore(c)
    \/ LockWait(c)
    \/ Subscribe(c)
    \/ ack(c)
    \/ control(c)
    \/ Unsubscribe(c)

Next ==
    \/ \E c \in Conns : ClientStep(c)
    \/ \E c \in Conns : Accept(c)
    \/ \E c \in Conns : HandlerStep(c)

Spec == Init /\ [][Next]_vars

(***************************************************************************)
(* Shutdown: main's signal goroutine, Start's context goroutine and accept *)
(* loop, Close and the end of main.                                        *)
(***************************************************************************)

\* A signal arrives on sigChan and main's goroutine calls cancel().
Signal ==
    /\ Running
    /\ mainPc # "loadTLSConfig"
    /\ ~ctxDone
    /\ ctxDone' = TRUE
    /\ UNCHANGED <<startErr, mainPc, listenerOpen, socketFile, exitCode>>
    /\ UNCHANGED <<hookVars, writerVars, clientVars, sockVars, taskVars, hubVars, poolVars, netVars, histVars>>

\* Start's goroutine: <-ctx.Done(), then listener.Close().  Closing a unix
\* listener made by net.Listen unlinks its socket file.
closeListener ==
    /\ Running
    /\ ctxDone
    /\ listenerOpen
    /\ listenerOpen' = FALSE
    /\ socketFile' = FALSE
    /\ UNCHANGED <<startErr, mainPc, ctxDone, exitCode>>
    /\ UNCHANGED <<hookVars, writerVars, clientVars, sockVars, taskVars, hubVars, poolVars, netVars, histVars>>

\* listener.Accept() fails on the closed listener; ctx is done, so Start
\* returns ctx.Err() and main goes on to proxy.Close().
acceptFailed ==
    /\ Running
    /\ mainPc = "accept"
    /\ ~listenerOpen
    /\ mainPc' = "Close"
    /\ UNCHANGED <<startErr, ctxDone, listenerOpen, socketFile, exitCode>>
    /\ UNCHANGED <<hookVars, writerVars, clientVars, sockVars, taskVars, hubVars, poolVars, netVars, histVars>>

\* Close: close(p.fluentbitPool.connections).
Close ==
    /\ Running
    /\ mainPc = "Close"
    /\ poolClosed' = TRUE
    /\ mainPc' = "drain"
    /\ UNCHANGED <<startErr, ctxDone, listenerOpen, socketFile, exitCode>>
    /\ UNCHANGED <<idle, activeConns, totalSent, totalErrors>>
    /\ UNCHANGED <<hookVars, writerVars, clientVars, sockVars, taskVars, hubVars, netVars, histVars>>

\* Close's loop over the closed channel: it closes each handle still cached
\* and ends when the channel is empty.
drain ==
    /\ Running
    /\ mainPc = "drain"
    /\ IF idle # <<>>
       THEN /\ idle' = Tail(idle)
            /\ hstate' = [hstate EXCEPT ![Head(idle)] = "closed"]
            /\ UNCHANGED mainPc
       ELSE /\ mainPc' = "Remove"
            /\ UNCHANGED <<idle, hstate>>
    /\ UNCHANGED <<startErr, ctxDone, listenerOpen, socketFile, exitCode>>
    /\ UNCHANGED <<poolClosed, activeConns, totalSent, totalErrors>>
    /\ UNCHANGED <<nextHandle, downstream>>
    /\ UNCHANGED <<hookVars, writerVars, clientVars, sockVars, taskVars, hubVars, histVars>>

\* main: os.Remove(*socketPath).
Remove ==
    /\ Running
    /\ mainPc = "Remove"
    /\ socketFile' = FALSE
    /\ mainPc' = "return"
    /\ UNCHANGED <<startErr, ctxDone, listenerOpen, exitCode>>
    /\ UNCHANGED <<hookVars, writerVars, clientVars, sockVars, taskVars, hubVars, poolVars, netVars, histVars>>

\* main returns: the process ends with exit code 0, whatever its handlers
\* were doing.
Exit ==
    /\ Running
    /\ mainPc = "return"
    /\ exitCode' = <<0>>
    /\ UNCHANGED <<startErr, mainPc, ctxDone, listenerOpen, socketFile>>
    /\ UNCHANGED <<hookVars, writerVars, clientVars, sockVars, taskVars, hubVars, poolVars, netVars, histVars>>

\* main: loadTLSConfig for the two targets; log.Fatalf ends the process
\* with exit code 1 when the certificates of either cannot be loaded.
loadTLSConfig ==
    /\ Running
    /\ mainPc = "loadTLSConfig"
    /\ \E loaded \in BOOLEAN :
          IF loaded
          THEN mainPc' = "RemoveAll" /\ UNCHANGED exitCode
          ELSE exitCode' = <<1>> /\ UNCHANGED mainPc
    /\ UNCHANGED <<startErr, ctxDone, listenerOpen, socketFile>>
    /\ UNCHANGED <<hookVars, writerVars, clientVars, sockVars, taskVars, hubVars, poolVars, netVars, histVars>>

\* Start: os.RemoveAll(p.socketPath); on an error Start returns it and main
\* goes on to proxy.Close().
RemoveAll ==
    /\ Running
    /\ mainPc = "RemoveAll"
    /\ \E removed \in BOOLEAN :
          IF removed
          THEN mainPc' = "Listen" /\ socketFile' = FALSE /\ UNCHANGED startErr
          ELSE mainPc' = "Close" /\ startErr' = "failed to remove existing socket"
               /\ UNCHANGED socketFile
    /\ UNCHANGED <<ctxDone, listenerOpen, exitCode>>
    /\ UNCHANGED <<hookVars, writerVars, clientVars, sockVars, taskVars, hubVars, poolVars, netVars, histVars>>

\* Start: net.Listen("unix", p.socketPath); on an error Start returns it and
\* main goes on to proxy.Close().
Listen ==
    /\ Running
    /\ mainPc = "Listen"
    /\ \E bound \in BOOLEAN :
          IF bound
          THEN mainPc' = "accept" /\ listenerOpen' = TRUE /\ socketFile' = TRUE
               /\ UNCHANGED startErr
          ELSE mainPc' = "Close" /\ startErr' = "failed to create unix socket"
               /\ UNCHANGED <<listenerOpen, socketFile>>
    /\ UNCHANGED <<ctxDone, exitCode>>
    /\ UNCHANGED <<hookVars, writerVars, clientVars, sockVars, taskVars, hubVars, poolVars, netVars, histVars>>

StartStep ==
    \/ loadTLSConfig
    \/ RemoveAll
    \/ Listen

MainStep ==
    \/ Signal
    \/ closeListener
    \/ acceptFailed
    \/ Close
    \/ drain
    \/ Remove
    \/ Exit

\* One client that asks for a page, one subscriber that may stall, and one
\* producer of two records.
Mixed ==
    Workload(<< Stays(<<GetLine, Blank>>, FALSE), Stays(<<SubBTmp>>, TRUE), OneShot(<<EvTmp, EvHome>>) >>)

InitOne == InitWith({Mixed})

\* main is about to load the certificates; a socket file of an earlier run
\* may be in place.
InitLife ==
    /\ Constructed({Mixed})
    /\ mainPc = "loadTLSConfig"
    /\ startErr = "nil"
    /\ listenerOpen = FALSE
    /\ socketFile \in BOOLEAN
    /\ sh = NoShell
    /\ hook = NoHook
    /\ wire = <<>>

NextLife ==
    \/ Next
    \/ StartStep
    \/ MainStep

\* subMutex.Lock() of goroutine c returns: the body of Subscribe or of
\* Unsubscribe runs.
Locked(c) == Subscribe(c) \/ Unsubscribe(c)

\* The steps of processFluentbitEvent once it has a handle: the forward,
\* Publish with its range loop (each write bounded by its deadline) and
\* totalEvents++, and the deferred release.
Forwarding(c) ==
    \/ probeFailed(c) \/ dialed(c)
    \/ write(c) \/ writeFailed(c) \/ sentOK(c)
    \/ Publish(c) \/ pass(c) \/ Flush(c) \/ count(c) \/ countStore(c)
    \/ release(c) \/ released(c)

\* The running proxy, where a goroutine that calls subMutex.Lock() gets the
\* lock if from some time on no reader holds it, and a handler that holds a
\* handle goes on whenever it does not wait for the lock.
SpecFair ==
    /\ InitOne /\ [][Next]_vars
    /\ \A c \in Conns : WF_vars(Locked(c)) /\ WF_vars(Forwarding(c))

\* The proxy from its start to the end of the process.
SpecLife == InitLife /\ [][NextLife]_vars

(***************************************************************************)
(* Properties.                                                             *)
(***************************************************************************)

\* The ways processFluentbitEvent ends for a record that passed its parse.
Outcomes == {"acquireFailed", "writeFailed", "forwarded"}

\* Handler c has finished processFluentbitEvent for its latest record, which
\* passed the parse, and is back in its scanner loop or has returned.
Processed(c) == pc[c] \in {"scan", "closed"} /\ rec[c].fwd \in Outcomes

\* C1: every record that parses as an object is published to the hub exactly
\* once by the time the ingestion handler has finished with it, whether the
\* acquire failed, the write failed or the forward succeeded.
C1_PublishedOnce ==
    \A c \in Conns : Processed(c) => rec[c].pubs = 1

\* The hub holds id, registered by connection c.
Registered(c) ==
    /\ subId[c] \in DOMAIN subscribers
    /\ subscribers[subId[c]].conn = c

\* C2: once a second Subscribe with the same id has replaced connection a's
\* sink by connection b's, and while b's client stays connected and reading,
\* the hub holds the id with b's sink, b's sink is open and a's is closed.
C2_SecondSinkLive ==
    \A a, b \in Conns :
        (replaced[a] = b /\ replaced[b] = 0 /\ ~cliClosed[b] /\ ~stalled[b])
            => (Registered(b) /\ ~srvClosed[b] /\ srvClosed[a])

\* A write to the sink of connection s failed in a publish pass, which now
\* is to remove the subscriber.
WriteFailed(s) ==
    \E c \in Conns :
        /\ pc[c] = "reap"
        /\ Head(deadSubs[c]) \in DOMAIN subscribers
        /\ subscribers[Head(deadSubs[c])].conn = s

\* C3: a subscriber whose write failed or timed out during a publish is
\* removed from the hub and its sink closed by that publish.
C3_DeadEvicted ==
    \A s \in Conns : WriteFailed(s) ~> (~Registered(s) /\ srvClosed[s])

\* The handles borrowed from the pool.
InFlight == Cardinality({c \in Conns : hconn[c] # 0})

\* C4: 0 <= idle_count <= live_count <= N + in_flight, and idle_count <= N.
C4_PoolBounds ==
    /\ 0 <= Len(idle)
    /\ Len(idle) <= activeConns
    /\ activeConns <= PoolSize + InFlight
    /\ Len(idle) <= PoolSize

\* Two producers hold a handle each while the cache is full: the second
\* release finds no room.
C4_Witness ==
    /\ Len(idle) = PoolSize
    /\ activeConns = PoolSize + 1
    /\ \E c \in Conns : pc[c] = "released"

\* C5: a record whose acquire failed because the dial failed has raised the
\* forward-failure counter by exactly 1 and the forwards counter by 0.
C5_OneFailureCounted ==
    \A c \in Conns :
        (Processed(c) /\ rec[c].fwd = "acquireFailed")
            => (rec[c].errs = 1 /\ rec[c].sends = 0)

\* C6: after a signal the process ends with exit code 0, and with no other.
C6_ExitsZero ==
    ctxDone => exitCode \in {NoExit, <<0>>}

\* The verbs of the request-proxy protocol.
Verbs ==
    { <<"G", "E", "T">>, <<"P", "O", "S", "T">>, <<"P", "U", "T">>,
      <<"D", "E", "L", "E", "T", "E">>, <<"H", "E", "A", "D">>,
      <<"O", "P", "T", "I", "O", "N", "S">>, <<"P", "A", "T", "C", "H">> }

\* The handler for a first line as stated: a verb followed by whitespace.
StatedHandler(line) ==
    IF \E v \in Verbs : HasPrefix(line, v) /\ Len(line) > Len(v) /\ IsSpace(line[Len(v) + 1])
    THEN "http"
    ELSE IF HasPrefix(line, SUBSCRIBE) THEN "sub"
    ELSE "ingest"

\* The handler for a first line, read without its surrounding whitespace:
\* a verb followed by a space character.
TrimmedHandler(line) ==
    LET t == TrimSpace(line)
    IN  IF \E v \in Verbs : HasPrefix(t, v \o <<" ">>) THEN "http"
        ELSE IF HasPrefix(t, SUBSCRIBE) THEN "sub"
        ELSE "ingest"

\* The lines handler c has read from its connection.
LinesRead(c) == sent[c] - Len(inbuf[c])

\* C7 as stated: request-proxy if the first line starts with a verb followed
\* by whitespace, otherwise subscriber if it begins with SUBSCRIBE, otherwise
\* ingestion.
C7_DispatchAsStated ==
    \A c \in Conns : kind[c] # "none" => kind[c] = StatedHandler(firstLine[c])

\* C7, amended: the handler is a function of the first line only, read
\* without its surrounding whitespace: request-proxy if it starts with a verb
\* followed by a space character, otherwise subscriber if it begins with
\* SUBSCRIBE, otherwise ingestion with that line as the first event; two
\* connections with the same first line get the same handler.
C7_Dispatch ==
    /\ \A c \in Conns : kind[c] # "none" => kind[c] = TrimmedHandler(firstLine[c])
    /\ \A c \in Conns :
          (kind[c] = "ingest" /\ LinesRead(c) = 1) => data[c] = TrimSpace(firstLine[c])
    /\ \A c, d \in Conns :
          (kind[c] # "none" /\ kind[d] # "none" /\ firstLine[c] = firstLine[d])
              => kind[c] = kind[d]

\* Two connections with the same first line, a verb followed by a tab, went
\* to ingestion, and a line that starts with a space registered a subscriber.
C7_Witness ==
    \E c, d, s \in Conns :
        /\ c # d
        /\ firstLine[c] = GetTab /\ firstLine[d] = GetTab
        /\ kind[c] = "ingest" /\ kind[d] = "ingest"
        /\ firstLine[s] = SubLead /\ kind[s] = "sub" /\ Registered(s)

\* The filter as stated: every key of F is a field of the event whose
\* stringified value equals F[key].
Satisfies(event, F) ==
    \A key \in DOMAIN F : key \in DOMAIN event /\ Sprintf(event[key]) = F[key]

\* The filter pwd=/tmp.
TmpFilter == [key \in {<<"p", "w", "d">>} |-> <<"/", "t", "m", "p">>]

\* The writes a sink has received.
Received(s) == {recv[s][i] : i \in 1..Len(recv[s])}

\* C8: a publish pass writes to a subscriber iff the event satisfies the
\* subscriber's filter (an empty filter is satisfied by every event); a
\* subscriber registered with pwd=/tmp never receives the pwd=/home event.
C8_FilterDecides ==
    /\ \A c \in hubReaders :
          \A id \in DOMAIN subscribers \ todo[c] :
              id \in wrote[c] <=> Satisfies(Unmarshal(data[c]).obj, subscribers[id].filter)
    /\ \A s \in Conns :
          (kind[s] = "sub" /\ filt[s] = TmpFilter) => Line(EvHome) \notin Received(s)

\* The pass for the pwd=/home event has written to the subscriber without a
\* filter and skipped the one with pwd=/tmp, which holds the pwd=/tmp event.
C8_Witness ==
    \E c, a, b \in Conns :
        /\ pc[c] = "countStore" /\ data[c] = EvHome
        /\ Registered(a) /\ filt[a] = EmptyMap /\ subId[a] \in wrote[c]
        /\ Registered(b) /\ filt[b] = TmpFilter /\ subId[b] \notin wrote[c]
        /\ Line(EvTmp) \in Received(b)
        /\ Line(EvHome) \in Received(a)

\* C9: when Publish returns, every registered subscriber whose filter the
\* event satisfies has been written the record and a newline, and no
\* subscriber whose write failed in this call is registered.
C9_PublishPostcondition ==
    \A c \in Conns :
        pc[c] = "countStore" =>
            \A id \in DOMAIN subscribers :
                /\ Satisfies(Unmarshal(data[c]).obj, subscribers[id].filter) => id \in wrote[c]
                /\ id \in wrote[c] => Line(data[c]) \in Received(subscribers[id].conn)

\* A Publish is about to return after a pass over two subscribers, one
\* written and one skipped.
C9_Witness ==
    \E c \in Conns :
        /\ pc[c] = "countStore"
        /\ wrote[c] # {}
        /\ DOMAIN subscribers \ wrote[c] # {}

\* The place of the first x in seq.
Index(seq, x) == CHOOSE i \in 1..Len(seq) : seq[i] = x /\ \A j \in 1..(i - 1) : seq[j] # x

\* C10: if the publish of e1 returned before the publish of e2 was called,
\* a sink that received both received e1's line first.
C10_PublishOrder ==
    \A c, s \in Conns :
        \A e1 \in doneBefore[c] \ {data[c]} :
            (Line(e1) \in Received(s) /\ Line(data[c]) \in Received(s))
                => Index(recv[s], Line(e1)) < Index(recv[s], Line(data[c]))

\* One sink holds the lines of two events published one after the other
\* from two connections.
C10_Witness ==
    \E c, d, s \in Conns :
        /\ c # d
        /\ data[d] \in doneBefore[c] /\ data[d] # data[c]
        /\ rec[c].pubs = 1 /\ rec[d].pubs = 1
        /\ Line(data[d]) \in Received(s) /\ Line(data[c]) \in Received(s)

\* The record handler c makes of the i-th line of its connection: the first
\* line is trimmed, a later one loses its carriage return.
Record(c, i) ==
    IF i = 1 THEN TrimSpace(script[c].lines[i]) ELSE DropCR(script[c].lines[i])

\* The place of the first entry <<what, r>> in the trail of handler c, 0 if
\* there is none.
Place(c, what, r) ==
    IF \E k \in 1..Len(trail[c]) : trail[c][k] = <<what, r>>
    THEN Index(trail[c], <<what, r>>)
    ELSE 0

\* C11: of two valid records r1, r2 sent in that order on one ingestion
\* connection, r1 is written to the downstream before r2 and published to
\* the hub before r2.
C11_ArrivalOrder ==
    \A c \in Conns :
        \A i, j \in 1..Len(script[c].lines) :
            (kind[c] = "ingest" /\ i < j /\ Record(c, i) # Record(c, j)) =>
                \A what \in {"forward", "publish"} :
                    Place(c, what, Record(c, j)) > 0 =>
                        /\ Place(c, what, Record(c, i)) <= Place(c, what, Record(c, j))
                        /\ \A k \in 1..Len(trail[c]) :
                              trail[c][k] = <<what, Record(c, i)>>
                                  => k < Place(c, what, Record(c, j))

\* One connection has had both of its records forwarded and published.
C11_Witness ==
    \E c \in Conns :
        /\ script[c].lines = <<EvTmp, EvHome>>
        /\ trail[c] = << <<"forward", EvTmp>>, <<"publish", EvTmp>>,
                         <<"forward", EvHome>>, <<"publish", EvHome>> >>

\* The complete responses: an error response, or an upstream response with
\* the whole of its body.
CompleteResponses ==
    {writeHTTPError(code) : code \in {"400", "500", "502"}} \cup
    {writeHTTPResponse(status, Len(Body)) : status \in {"200 OK", "404 Not Found"}}

\* C12: when the proxy closes a request-proxy connection whose client is
\* still there, it has written exactly one complete response to it: the
\* upstream's status and body, a 4xx response or a 5xx response.
C12_OneResponse ==
    \A c \in Conns :
        (kind[c] = "http" /\ pc[c] = "closed" /\ ~cliClosed[c])
            => recv[c] \in CompleteResponses

\* C13: a step of a request-proxy handler leaves the hub and the pool as
\* they are and writes to no connection but its own.
C13_ProxyFrame ==
    [][\A c \in Conns :
          (kind[c] = "http" /\ pc'[c] # pc[c]) =>
              /\ UNCHANGED <<hubVars, poolVars>>
              /\ \A s \in Conns \ {c} : recv'[s] = recv[s]]_vars

\* A request has been answered with the upstream's response while a
\* subscriber was registered and the pool had forwarded a record.
C13_Witness ==
    \E c \in Conns :
        /\ kind[c] = "http" /\ pc[c] = "closed"
        /\ recv[c] = writeHTTPResponse("200 OK", Len(Body))
        /\ DOMAIN subscribers # {}
        /\ totalSent > 0

\* C14: the proxy closes an ingestion connection only at the end of the
\* client's input: the client has closed and every record it sent was read,
\* whatever errors the records before met.
C14_OpenUntilClientCloses ==
    \A c \in Conns :
        (kind[c] = "ingest" /\ srvClosed[c]) => (cliClosed[c] /\ inbuf[c] = <<>>)

\* The handles that are open at the downstream.
OpenHandles == {h \in Handles : hstate[h] = "open"}

\* C15: at every moment at most PoolSize connections to the log-ingestion
\* target are open, idle and borrowed together.
C15_AtMostN ==
    Cardinality(OpenHandles) <= PoolSize

\* The steps of getConnection and of the release of a handle.
PoolStep(c) ==
    \/ getConnection(c)
    \/ probeFailed(c)
    \/ dial(c)
    \/ dialed(c)
    \/ release(c)
    \/ released(c)

MaxCommands == 2

DirHome == <<"/", "h", "o", "m", "e">>
DirTmp == <<"/", "t", "m", "p">>

CmdLs == <<"l", "s">>
CmdCd == <<"c", "d", " ", "/", "t", "m", "p">>
CmdDashN == <<"-", "n">>

Commands == {CmdLs, CmdCd, CmdDashN}

\* What env prints, the lines joined with newlines.
EnvText1 ==
    <<"P", "W", "D", "=", "/", "t", "m", "p", "\n", "A", "P", "I", "_", "K", "E", "Y", "=", "k", "1", "\n", "F", "O", "O", "=", "x", "\n", "T", "E", "R", "M", "=", "x">>
EnvText2 ==
    <<"N", "O", "D", "E", "_", "E", "N", "V", "=", "p", "r", "o", "d", "\n", "D", "B", "_", "S", "E", "C", "R", "E", "T", "=", "k", "1", "\n", "N", "O", "E", "Q">>

EnvTexts == {EnvText1, EnvText2}

\* The options of bash's echo.
EchoOptions == { <<"-", "n">>, <<"-", "e">>, <<"-", "E">> }

RECURSIVE DropOptions(_)
DropOptions(words) ==
    IF words # <<>> /\ Head(words) \in EchoOptions THEN DropOptions(Tail(words)) ELSE words

\* echo -n $1: the unquoted argument is split into words, the leading words
\* that are options of echo are taken as options, the rest is printed with
\* single spaces between the words.
Echo(arg) == JoinSpace(DropOptions(Fields(arg)))

\* base64 on the texts of the model, each with its standard encoding.
Base64Table ==
    { <<<<>>, "">>,
      <<CmdLs, "bHM=">>,
      <<CmdCd, "Y2QgL3RtcA==">>,
      <<EnvText1, "UFdEPS90bXAKQVBJX0tFWT1rMQpGT089eApURVJNPXg=">>,
      <<EnvText2, "Tk9ERV9FTlY9cHJvZApEQl9TRUNSRVQ9azEKTk9FUQ==">> }

\* base64 (the command) and base64.StdEncoding.EncodeToString
EncodeToString(text) == (CHOOSE p \in Base64Table : p[1] = text)[2]

\* base64.StdEncoding.DecodeString
DecodeString(s) ==
    IF \E p \in Base64Table : p[2] = s
    THEN [ok |-> TRUE, bytes |-> (CHOOSE p \in Base64Table : p[2] = s)[1]]
    ELSE [ok |-> FALSE, bytes |-> <<>>]

(***************************************************************************)
(* env_config.go.  The regular expressions of the source have five shapes: *)
(* ^X (a prefix), ^X$ (the whole key), X (a substring), (?i)x (a substring *)
(* in any case) and ^[A-Z_]+X$ (capitals and underscores, then X).         *)
(***************************************************************************)

Upper == <<"A", "B", "C", "D", "E", "F", "G", "H", "I", "J", "K", "L", "M", "N", "O", "P", "Q", "R", "S", "T", "U", "V", "W", "X", "Y", "Z">>
Lower == <<"a", "b", "c", "d", "e", "f", "g", "h", "i", "j", "k", "l", "m", "n", "o", "p", "q", "r", "s", "t", "u", "v", "w", "x", "y", "z">>

ToLower(ch) == IF \E i \in 1..Len(Upper) : Upper[i] = ch
               THEN Lower[CHOOSE i \in 1..Len(Upper) : Upper[i] = ch]
               ELSE ch

LowerCase(s) == [i \in 1..Len(s) |-> ToLower(s[i])]

\* strings.Contains
Contains(s, sub) ==
    \E i \in 1..(Len(s) - Len(sub) + 1) : SubSeq(s, i, i + Len(sub) - 1) = sub

\* regexp.MatchString("(?i)" + word, key)
MatchFold(word, key) == Contains(LowerCase(key), word)

\* regexp.MatchString("^[A-Z_]+" + tail + "$", key)
MatchCapsThen(tail, key) ==
    /\ Len(key) > Len(tail)
    /\ SubSeq(key, Len(key) - Len(tail) + 1, Len(key)) = tail
    /\ \A i \in 1..(Len(key) - Len(tail)) :
          key[i] = "_" \/ \E j \in 1..Len(Upper) : Upper[j] = key[i]

\* absoluteDenyPatterns, by shape.
AbsoluteDenyPrefix ==
    { <<"_", "_", "_", "P", "R", "E", "E", "X", "E", "C", "_">>,
      <<"_", "_">>,
      <<"B", "A", "S", "H", "_", "F", "U", "N", "C", "_">>,
      <<"H", "I", "S", "T">>,
      <<"O", "P", "T">>,
      <<"B", "A", "S", "H", "_">> }
AbsoluteDenyExact ==
    { <<"_">>,
      <<"P", "S", "1">>,
      <<"P", "S", "2">>,
      <<"P", "S", "3">>,
      <<"P", "S", "4">>,
      <<"T", "E", "R", "M">>,
      <<"L", "I", "N", "E", "S">>,
      <<"C", "O", "L", "U", "M", "N", "S">>,
      <<"I", "F", "S">>,
      <<"R", "A", "N", "D", "O", "M">>,
      <<"S", "E", "C", "O", "N", "D", "S">>,
      <<"F", "U", "N", "C", "N", "A", "M", "E">>,
      <<"P", "I", "P", "E", "S", "T", "A", "T", "U", "S">>,
      <<"R", "E", "P", "L", "Y">>,
      <<"S", "H", "E", "L", "L", "O", "P", "T", "S">>,
      <<"B", "A", "S", "H", "O", "P", "T", "S">> }
AbsoluteDenyContains == { <<"T", "O", "T", "A", "L", "R", "E", "C", "A", "L", "L", "R", "O", "O", "T">> }

\* sensitivePatterns, each (?i)word.
SensitiveWords ==
    { <<"p", "a", "s", "s", "w", "o", "r", "d">>,
      <<"s", "e", "c", "r", "e", "t">>,
      <<"k", "e", "y">>,
      <<"t", "o", "k", "e", "n">>,
      <<"a", "u", "t", "h">>,
      <<"c", "r", "e", "d", "e", "n", "t", "i", "a", "l">>,
      <<"p", "r", "i", "v", "a", "t", "e">>,
      <<"s", "e", "s", "s", "i", "o", "n">>,
      <<"c", "o", "o", "k", "i", "e">>,
      <<"c", "e", "r", "t">>,
      <<"s", "s", "l">>,
      <<"t", "l", "s">>,
      <<"o", "a", "u", "t", "h">>,
      <<"j", "w", "t">>,
      <<"b", "e", "a", "r", "e", "r">>,
      <<"a", "c", "c", "e", "s", "s">>,
      <<"r", "e", "f", "r", "e", "s", "h">>,
      <<"s", "a", "l", "t">>,
      <<"h", "a", "s", "h">>,
      <<"s", "i", "g", "n", "a", "t", "u", "r", "e">>,
      <<"l", "i", "c", "e", "n", "s", "e">>,
      <<"s", "e", "r", "i", "a", "l">>,
      <<"u", "r", "l">>,
      <<"d", "s", "n">>,
      <<"c", "o", "n", "n", "e", "c", "t", "i", "o", "n">>,
      <<"e", "n", "d", "p", "o", "i", "n", "t">> }

\* The first four bytes of the SHA-256 of the values of the model, as
\* fmt.Sprintf("h8_%x", hash[:4]) prints them.
Sha256Table ==
    { <<<<"k", "1">>, <<"h", "8", "_", "6", "a", "b", "9", "f", "1", "e", "b">>>>,
      <<<<"x">>, <<"h", "8", "_", "2", "d", "7", "1", "1", "6", "4", "2">>>>,
      <<<<"/", "t", "m", "p">>, <<"h", "8", "_", "e", "9", "6", "7", "1", "a", "c", "d">>>>,
      <<<<"p", "r", "o", "d">>, <<"h", "8", "_", "6", "7", "5", "4", "a", "f", "9", "6">>>> }

Digest(value) == (CHOOSE p \in Sha256Table : p[1] = value)[2]

\* EnvConfig values: a cut of DefaultEnvConfig, the zero value a file with
\* the content {} decodes to, and a file that allows every key.
ConfigDefault ==
    [allowExact |-> { <<"P", "W", "D">>, <<"N", "O", "D", "E", "_", "E", "N", "V">> },
     allowPrefix |-> {},
     allowCapsThen |-> { <<"_", "K", "E", "Y">> },
     denyExact |-> { <<"_">>, <<"T", "E", "R", "M">> },
     denyFold |-> { <<"k", "e", "y">>, <<"s", "e", "c", "r", "e", "t">> },
     hashSensitive |-> TRUE]

ConfigZero ==
    [allowExact |-> {}, allowPrefix |-> {}, allowCapsThen |-> {},
     denyExact |-> {}, denyFold |-> {}, hashSensitive |-> FALSE]

ConfigOpen ==
    [allowExact |-> {},
     allowPrefix |-> { <<>> },
     allowCapsThen |-> {},
     denyExact |-> { <<"F", "O", "O">> },
     denyFold |-> { <<"s", "e", "c", "r", "e", "t">> },
     hashSensitive |-> FALSE]

Configs == {ConfigDefault, ConfigZero, ConfigOpen}

\* ShouldIncludeEnvVar: the built-in absolute denylist and the configured
\* exact denylist.
AbsolutelyDenied(config, key) ==
    \/ \E p \in AbsoluteDenyPrefix : HasPrefix(key, p)
    \/ key \in AbsoluteDenyExact
    \/ \E p \in AbsoluteDenyContains : Contains(key, p)
    \/ key \in config.denyExact

\* ShouldIncludeEnvVar: the allowlist, exact names and patterns.
Allowed(config, key) ==
    \/ key \in config.allowExact
    \/ \E p \in config.allowPrefix : HasPrefix(key, p)
    \/ \E t \in config.allowCapsThen : MatchCapsThen(t, key)

\* ShouldIncludeEnvVar: the configured patterns of sensitive keys and, with
\* hash_sensitive_values set, the built-in ones.
Sensitive(config, key) ==
    \/ \E w \in config.denyFold : MatchFold(w, key)
    \/ config.hashSensitive /\ \E w \in SensitiveWords : MatchFold(w, key)

\* A filter that looks at the sensitive patterns first.
ShouldIncludeSensitiveFirst(config, key) ==
    IF Sensitive(config, key) THEN [include |-> TRUE, shouldHash |-> TRUE]
    ELSE IF AbsolutelyDenied(config, key) \/ ~Allowed(config, key)
    THEN [include |-> FALSE, shouldHash |-> FALSE]
    ELSE [include |-> TRUE, shouldHash |-> FALSE]


\* EnvConfig.ShouldIncludeEnvVar(key, value): include and shouldHash.
ShouldIncludeEnvVar(config, key) ==
    IF AbsolutelyDenied(config, key) THEN [include |-> FALSE, shouldHash |-> FALSE]
    ELSE IF ~Allowed(config, key) THEN [include |-> FALSE, shouldHash |-> FALSE]
    ELSE IF Sensitive(config, key) THEN [include |-> TRUE, shouldHash |-> TRUE]
    ELSE [include |-> TRUE, shouldHash |-> FALSE]

\* A filter without the allowlist.
FilterDenyOnly(config, env) ==
    LET kept == {key \in DOMAIN env : ~AbsolutelyDenied(config, key)}
    IN  [key \in kept |-> IF Sensitive(config, key) THEN Digest(env[key]) ELSE env[key]]

\* EnvConfig.FilterEnvironment
FilterEnvironment(config, env) ==
    LET kept == {key \in DOMAIN env : ShouldIncludeEnvVar(config, key).include}
    IN  [key \in kept |-> IF ShouldIncludeEnvVar(config, key).shouldHash
                          THEN Digest(env[key])
                          ELSE env[key]]

\* parseEnvironmentString: the lines KEY=value of the decoded text; empty
\* lines and lines without "=" are skipped, a repeated key keeps its last
\* value.
RECURSIVE RawEnv(_, _)
RawEnv(lines, acc) ==
    IF lines = <<>> THEN acc
    ELSE LET pair == SplitN2(Head(lines), "=")
         IN  RawEnv(Tail(lines),
                    IF Head(lines) # <<>> /\ Len(pair) = 2
                    THEN MapPut(acc, pair[1], pair[2])
                    ELSE acc)

parseEnvironmentString(envData, config) ==
    IF envData = "" THEN [ok |-> TRUE, env |-> EmptyMap]
    ELSE LET decoded == DecodeString(envData)
         IN  IF ~decoded.ok THEN [ok |-> FALSE, env |-> EmptyMap]
             ELSE [ok |-> TRUE,
                   env |-> FilterEnvironment(config, RawEnv(Split(decoded.bytes, "\n"), EmptyMap))]

\* os.Environ() of the hook program, for a start without -env.
Environ == RawEnv(Split(EnvText1, "\n"), EmptyMap)

\* The shell at its first prompt, in the home directory.  PREEXEC_PWD,
\* PREEXEC_CMD and PREEXEC_ENV are the exported variables ___PREEXEC_PWD,
\* ___PREEXEC_CMD and ___PREEXEC_ENV; began is the working directory at the
\* moment preexec ran for the command precmd reports (history).
ShellAt(config) ==
    [pc |-> "prompt", cwd |-> DirHome, line |-> <<>>, typed |-> 0, config |-> config,
     PREEXEC_PWD |-> <<>>, PREEXEC_CMD |-> "", PREEXEC_ENV |-> "", began |-> <<>>]

\* The proxy idle, the shell at its prompt with one of the configuration
\* files in place.
InitHook ==
    /\ Started({Workload(<<>>)})
    /\ sh \in {ShellAt(config) : config \in Configs}
    /\ hook = NoHook
    /\ wire = <<>>

NoEvent == [none |-> TRUE]

\* preexec: runs before the command line is executed.
preexec ==
    /\ sh.pc = "prompt"
    /\ sh.typed < MaxCommands
    /\ \E line \in Commands, text \in EnvTexts :
          sh' = [sh EXCEPT !.pc = "run",
                           !.line = line,
                           !.typed = @ + 1,
                           !.PREEXEC_PWD = sh.cwd,
                           !.PREEXEC_CMD = EncodeToString(Echo(line)),
                           !.PREEXEC_ENV = EncodeToString(text),
                           !.began = sh.cwd]
    /\ UNCHANGED <<proxyVars, hook, wire>>

\* The shell executes the command line; cd changes the working directory.
run ==
    /\ sh.pc = "run"
    /\ LET words == Fields(sh.line)
       IN  sh' = [sh EXCEPT !.pc = "precmd",
                            !.cwd = IF Len(words) = 2 /\ words[1] = <<"c", "d">>
                                    THEN words[2]
                                    ELSE @]
    /\ UNCHANGED <<proxyVars, hook, wire>>

\* An empty command line: the prompt is shown again and precmd runs with no
\* preexec before it.
EmptyLine ==
    /\ sh.pc = "prompt"
    /\ sh.typed < MaxCommands
    /\ sh' = [sh EXCEPT !.pc = "precmd", !.typed = @ + 1]
    /\ UNCHANGED <<proxyVars, hook, wire>>

PwdArgNow(s) == s.cwd

\* -pwd="$___PREEXEC_PWD"
PwdArg(s) == s.PREEXEC_PWD

\* precmd: starts the hook program in the background with the saved values
\* as its flags, then unsets them.  The program's main returns on every
\* path, so its exit status is 0 and the alternative after || does not run.
precmd ==
    /\ sh.pc = "precmd"
    /\ hook.pc \in {"none", "exit"}
    /\ hook' = [pc |-> "main",
                args |-> [command |-> sh.PREEXEC_CMD, pwd |-> PwdArg(sh), env |-> sh.PREEXEC_ENV],
                config |-> sh.config,
                event |-> NoEvent,
                tries |-> <<>>,
                began |-> sh.began]
    /\ sh' = [sh EXCEPT !.pc = "prompt",
                        !.PREEXEC_PWD = <<>>,
                        !.PREEXEC_CMD = "",
                        !.PREEXEC_ENV = "",
                        !.began = <<>>]
    /\ UNCHANGED <<proxyVars, wire>>

\* main of the hook program up to json.Marshal: -pwd is required, the
\* command is decoded and trimmed, the environment parsed and filtered.  An
\* empty env is not put into the event.
main ==
    /\ hook.pc = "main"
    /\ LET a == hook.args
           decoded == DecodeString(a.command)
           env == IF a.env # ""
                  THEN parseEnvironmentString(a.env, hook.config)
                  ELSE [ok |-> TRUE, env |-> FilterEnvironment(hook.config, Environ)]
       IN  IF a.pwd = <<>> \/ ~decoded.ok \/ ~env.ok
           THEN hook' = [hook EXCEPT !.pc = "exit"]
           ELSE hook' = [hook EXCEPT !.pc = "socket",
                                     !.event = [command |-> TrimSpace(decoded.bytes),
                                                pwd |-> a.pwd,
                                                env |-> env.env]]
    /\ UNCHANGED <<proxyVars, sh, wire>>

FallbackAlways(failed) == TRUE

\* if err := sendViaUnixSocket(...); err != nil { sendDirectTLS(...) }
Fallback(failed) == failed

\* What a send leaves on the wire.
Sent(path) == [path |-> path, event |-> hook.event, began |-> hook.began]

\* sendViaUnixSocket: the dial or the write may fail.
sendViaUnixSocket ==
    /\ hook.pc = "socket"
    /\ \E result \in {"sent", "connect failed", "write failed"} :
          /\ hook' = [hook EXCEPT !.pc = IF Fallback(result # "sent") THEN "direct" ELSE "exit",
                                  !.tries = Append(@, <<"socket", result>>)]
          /\ wire' = IF result = "sent" THEN Append(wire, Sent("socket")) ELSE wire
    /\ UNCHANGED <<proxyVars, sh>>

\* sendDirectTLS: loading the certificates, the dial or the write may fail;
\* main ignores the error and returns.
sendDirectTLS ==
    /\ hook.pc = "direct"
    /\ \E result \in {"sent", "connect failed", "write failed"} :
          /\ hook' = [hook EXCEPT !.pc = "exit",
                                  !.tries = Append(@, <<"direct", result>>)]
          /\ wire' = IF result = "sent" THEN Append(wire, Sent("direct")) ELSE wire
    /\ UNCHANGED <<proxyVars, sh>>

NextHook ==
    \/ preexec
    \/ run
    \/ EmptyLine
    \/ precmd
    \/ main
    \/ sendViaUnixSocket
    \/ sendDirectTLS

SpecHook == InitHook /\ [][NextHook]_vars

\* The hook program has built its event.
Built == hook.pc \in {"socket", "direct"} \/ (hook.pc = "exit" /\ hook.tries # <<>>)

\* C17: the pwd of every event sent, and of the event the hook program is
\* about to send, is the working directory at the moment preexec ran for
\* its command, whatever the command did to the working directory.
C17_PwdBeforeCommand ==
    /\ \A i \in 1..Len(wire) : wire[i].event.pwd = wire[i].began
    /\ Built => hook.event.pwd = hook.began

\* The event of cd /tmp, typed in /home, has been sent while the shell is
\* in /tmp.
C17_Witness ==
    \E i \in 1..Len(wire) :
        /\ wire[i].event.command = CmdCd
        /\ wire[i].began = DirHome
        /\ sh.cwd = DirTmp

\* C18: the hook program tries the socket first; it tries the direct path
\* exactly when the socket attempt failed; it makes at most one attempt on
\* each path and at most one of them sends the event.
C18_SocketThenDirect ==
    hook.pc \in {"socket", "direct", "exit"} =>
        LET t == hook.tries
        IN  /\ Len(t) <= 2
            /\ Len(t) >= 1 => t[1][1] = "socket"
            /\ Len(t) = 2 => t[2][1] = "direct" /\ t[1][2] # "sent"
            /\ hook.pc = "exit" /\ Len(t) = 1 => t[1][2] = "sent"
            /\ hook.pc = "direct" => Len(t) = 1 /\ t[1][2] # "sent"
            /\ Cardinality({i \in 1..Len(t) : t[i][2] = "sent"}) <= 1

\* The socket could not be connected and the direct attempt sent the event.
C18_Witness ==
    /\ hook.pc = "exit"
    /\ hook.tries = << <<"socket", "connect failed">>, <<"direct", "sent">> >>
    /\ wire # <<>> /\ wire[Len(wire)].path = "direct"

\* C19: every event sent has a non-empty command and a non-empty pwd, and
\* an event that lacks one of them is not sent.
C19_NonEmpty ==
    /\ \A i \in 1..Len(wire) :
          wire[i].event.command # <<>> /\ wire[i].event.pwd # <<>>
    /\ Built => hook.event.command # <<>> /\ hook.event.pwd # <<>>

\* The environment the hook program was given, before the filter.
GivenEnv == RawEnv(Split(DecodeString(hook.args.env).bytes, "\n"), EmptyMap)

HexDigits == {"0", "1", "2", "3", "4", "5", "6", "7", "8", "9", "a", "b", "c", "d", "e", "f"}

\* The first of the four rules that applies to a key.
Verdict(config, key) ==
    CASE AbsolutelyDenied(config, key) -> "denied"
      [] ~AbsolutelyDenied(config, key) /\ ~Allowed(config, key) -> "not allowed"
      [] ~AbsolutelyDenied(config, key) /\ Allowed(config, key) /\ Sensitive(config, key) -> "hashed"
      [] OTHER -> "verbatim"

C22_StartupExit ==
    /\ (mainPc = "loadTLSConfig" /\ ~Running) => exitCode # <<0>>
    /\ startErr # "nil" =>
          /\ \A c \in Conns : pc[c] = "none"
          /\ ~Running => exitCode # <<0>>

\* C23: Unsubscribe(id) leaves the id absent, every other subscriber and
\* the counters as they were, and fails in no case; for an id that is not
\* registered (a second call, or an id another call has removed) it
\* changes nothing in the hub and closes no sink but the caller's own
\* connection.
C23_Idempotent ==
    [][\A c \in Conns :
          (pc[c] = "Unsubscribe" /\ pc'[c] # pc[c]) =>
              /\ pc'[c] = "closed"
              /\ exitCode' = exitCode
              /\ subId[c] \notin DOMAIN subscribers'
              /\ DOMAIN subscribers' = DOMAIN subscribers \ {subId[c]}
              /\ \A id \in DOMAIN subscribers' : subscribers'[id] = subscribers[id]
              /\ totalEvents' = totalEvents
              /\ totalSubs' = totalSubs
              /\ subId[c] \notin DOMAIN subscribers =>
                    /\ subscribers' = subscribers
                    /\ srvClosed' = [srvClosed EXCEPT ![c] = TRUE]]_vars

\* Two subscribers registered the same id and both handlers have ended: the
\* second Unsubscribe found the id absent while another id was registered
\* or not.
C23_Witness ==
    \E c, d \in Conns :
        /\ c # d
        /\ kind[c] = "sub" /\ kind[d] = "sub"
        /\ subId[c] = subId[d]
        /\ subId[c] # <<>>
        /\ pc[c] = "closed" /\ pc[d] = "closed"
        /\ subId[c] \notin DOMAIN subscribers

\* The bytes decode to a structured object.
IsObject(bytes) == Unmarshal(bytes).ok /\ TrimSpace(bytes) # <<>> /\ TrimSpace(bytes)[1] = "{"

\* C24: a record that does not parse as a structured object is written to
\* no subscriber, whatever the subscriber's filter.
C24_UnparsedNotPublished ==
    \A c, s \in Conns :
        (kind[c] = "ingest" /\ kind[s] = "sub") =>
            \A i \in 1..Len(script[c].lines) :
                ~IsObject(script[c].lines[i]) =>
                    \A j \in 1..Len(recv[s]) : recv[s][j] # Line(script[c].lines[i])

\* Handler c takes a step of processFluentbitEvent.
Moves(c) == pc'[c] # pc[c]

\* C25: with the downstream reachable and no subscriber registered, the
\* forward of a valid record appends exactly the record and one newline to
\* what the downstream has received, then the forwards counter grows by 1
\* and the failure counter stays, then Publish returns at once with no write
\* to any connection, then the handle goes back to the pool: into the idle
\* cache, or closed by the pool when the cache is full.
C25_ForwardOnly ==
    [][\A c \in Conns :
          /\ (pc[c] = "write" /\ pc'[c] = "sent") =>
                /\ downstream' = downstream \o <<data[c] \o <<"\n">>>>
                /\ totalErrors' = totalErrors
          /\ (pc[c] = "sent" /\ Moves(c)) =>
                /\ pc'[c] = "Publish"
                /\ totalSent' = totalSent + 1
                /\ totalErrors' = totalErrors
                /\ downstream' = downstream
          /\ (pc[c] = "Publish" /\ Moves(c) /\ DOMAIN subscribers = {}) =>
                /\ pc'[c] = "release"
                /\ returnConn[c]
                /\ recv' = recv
                /\ totalSent' = totalSent /\ totalErrors' = totalErrors
                /\ downstream' = downstream
          /\ (pc[c] = "release" /\ Moves(c) /\ returnConn[c]) =>
                /\ totalSent' = totalSent /\ totalErrors' = totalErrors
                /\ downstream' = downstream
                /\ \/ pc'[c] = "scan" /\ idle' = Append(idle, hconn[c])
                      /\ hstate'[hconn[c]] = "open" /\ hconn'[c] = 0
                   \/ pc'[c] = "released" /\ Len(idle) = PoolSize /\ idle' = idle
                      /\ hstate'[hconn[c]] = "closed"]_vars

\* One record has been forwarded with no subscriber ever registered: the
\* downstream holds its line, the counters stand at 1 and 0, the handle is
\* in the idle cache.
C25_Witness ==
    \E c \in Conns :
        /\ pc[c] \in {"scan", "closed"}
        /\ rec[c].fwd = "forwarded"
        /\ rec[c].pubs = 1
        /\ totalSubs = 0
        /\ downstream = <<EvTmp \o <<"\n">>>>
        /\ totalSent = 1 /\ totalErrors = 0
        /\ hconn[c] = 0 /\ Len(idle) = 1 /\ hstate[idle[1]] = "open"

\* C26: no task requests the hub's write lock while it holds the read lock
\* itself: Publish would have released the read lock before it removes its
\* dead subscribers.
C26_ReadReleasedBeforeReap ==
    \A c \in Conns : WantsLock(c) => c \notin hubReaders

\* C27: a Publish that has dead subscribers to remove gets on with it: each
\* removal ends, so that Publish returns and its handler goes on.
C27_PublishReturns ==
    \A c \in Conns : \A n \in 1..NumConns :
        (pc[c] = "reap" /\ Len(deadSubs[c]) = n)
            ~> (pc[c] # "reap" \/ Len(deadSubs[c]) < n)

\* C28: once Close has run, no handle is left in the idle cache and every
\* handle still open is held by a handler; and no acquire or release that a
\* handler makes after the pool was closed ends the process with a fault.
C28_CloseSafe ==
    /\ mainPc \in {"Remove", "return"} =>
          /\ idle = <<>>
          /\ \A h \in Handles : hstate[h] = "open" => \E c \in Conns : hconn[c] = h
    /\ poolClosed => exitCode # <<2>>

\* C29: when the process has ended by main's return, no ingestion handler is
\* in the middle of a record (each has finished its forward and its publish)
\* and no subscriber is registered any more.
C29_FinishBeforeExit ==
    exitCode = <<0>> =>
        /\ \A c \in Conns : kind[c] = "ingest" => pc[c] \in {"scan", "closed"}
        /\ DOMAIN subscribers = {}

\* The handles dialled so far.
Dialled == 1..(nextHandle - 1)

\* The three states of a handle: in the idle cache, held open by a handler,
\* closed.
IsIdle(h) == \E i \in 1..Len(idle) : idle[i] = h
IsBorrowed(h) == hstate[h] = "open" /\ \E c \in Conns : hconn[c] = h
IsClosed(h) == hstate[h] = "closed"

\* Every dialled handle is in exactly one of the three states, at one place
\* of the idle cache or with one borrower.
OneState ==
    /\ \A h \in Dialled :
          /\ IsIdle(h) \/ IsBorrowed(h) \/ IsClosed(h)
          /\ ~(IsIdle(h) /\ IsBorrowed(h))
          /\ ~(IsIdle(h) /\ IsClosed(h))
          /\ ~(IsBorrowed(h) /\ IsClosed(h))
          /\ IsIdle(h) => \A c \in Conns : hconn[c] # h
    /\ \A i, j \in 1..Len(idle) : idle[i] = idle[j] => i = j
    /\ \A c, d \in Conns : (hconn[c] # 0 /\ hconn[c] = hconn[d]) => c = d
    /\ \A h \in Handles \ Dialled :
          hstate[h] = "fresh" /\ ~IsIdle(h) /\ \A c \in Conns : hconn[c] # h

\* C30: every handle is in exactly one of the states idle, borrowed and
\* closed, with at most one borrower and at most one place in the idle
\* cache; a closed handle stays closed, is never taken by a handler and
\* never put into the idle cache.
C30_OneState ==
    [][/\ OneState'
       /\ \A h \in Handles : hstate[h] = "closed" =>
             /\ hstate'[h] = "closed"
             /\ \A c \in Conns : hconn'[c] = h => hconn[c] = h
             /\ \A i \in 1..Len(idle') : idle'[i] # h]_vars

\* One handle was closed after a failed forward, another has been dialled,
\* used, and is in the idle cache.
C30_Witness ==
    /\ nextHandle = 3
    /\ hstate[1] = "closed" /\ hstate[2] = "open"
    /\ idle = <<2>>
    /\ \A c \in Conns : hconn[c] = 0
    /\ totalSent >= 1

\* No getConnection, release or drain of Close is under way.
PoolQuiet ==
    /\ \A c \in Conns :
          pc[c] \notin {"getConnection", "probeFailed", "dial", "dialed",
                        "acquireFailed", "release", "released"}
    /\ mainPc # "drain"

\* C31: whenever no acquire or release is in progress, the pool's live count
\* is the number of open handles, those closed by Close included; it is
\* never negative.
C31_LiveCount ==
    /\ activeConns >= 0
    /\ PoolQuiet => activeConns = Cardinality(OpenHandles)

\* The same while the pool has not been closed.
LiveCountWhileOpen ==
    (PoolQuiet /\ ~poolClosed) => activeConns = Cardinality(OpenHandles)

\* Where the handler of each kind can stand.
IngestPcs ==
    {"scan", "getConnection", "probeFailed", "dial", "dialed", "acquireFailed",
     "write", "writeFailed", "sent", "Publish", "pass", "Flush", "count", "countStore",
     "reap", "release", "released", "closed"}
SubPcs == {"Subscribe", "ack", "control", "Unsubscribe", "closed"}
HttpPcs == {"handleESRequest", "Do", "closed"}

\* C32: once a connection is dispatched its handler never changes.  An
\* ingestion handler stays in the ingestion code whatever its later lines
\* begin with: it registers no subscriber, issues no upstream request and
\* writes nothing to its client.  A subscriber handler stays in the
\* subscriber code: it forwards nothing, publishes nothing and holds no
\* handle.
C32_DispatchFinal ==
    [][\A c \in Conns :
          /\ kind[c] # "none" => kind'[c] = kind[c]
          /\ kind'[c] = "ingest" =>
                /\ pc'[c] \in IngestPcs
                /\ recv'[c] = <<>>
                /\ \A id \in DOMAIN subscribers' : subscribers'[id].conn # c
          /\ kind'[c] = "sub" =>
                /\ pc'[c] \in SubPcs
                /\ trail'[c] = <<>> /\ rec'[c] = NoRec /\ hconn'[c] = 0
          /\ kind'[c] = "http" => pc'[c] \in HttpPcs]_vars

\* An ingestion connection has sent a record, a SUBSCRIBE line and a request
\* line, and its handler has read them all; a subscriber has sent an event
\* line, and its handler has read it.
C32_Witness ==
    \E c, s \in Conns :
        /\ kind[c] = "ingest" /\ script[c].lines = <<EvHome, SubTui, GetLine>>
        /\ sent[c] = 3 /\ inbuf[c] = <<>> /\ pc[c] = "closed"
        /\ trail[c] # <<>>
        /\ kind[s] = "sub" /\ script[s].lines = <<SubA, EvTmp>>
        /\ sent[s] = 2 /\ inbuf[s] = <<>> /\ pc[s] = "control"
        /\ totalSubs = 1

\* C33: a connection whose first line is longer than a line may be is closed
\* without being dispatched: no handler is chosen for it, and nothing is
\* forwarded, published or subscribed on its behalf.
C33_LongFirstLineRejected ==
    \A c \in Conns :
        (script[c].lines # <<>> /\ TooLong(script[c].lines[1])) =>
            /\ kind[c] = "none"
            /\ trail[c] = <<>>
            /\ \A id \in DOMAIN subscribers : subscribers[id].conn # c

\* C34: a record that is empty or is no structured object has no effect: it
\* is neither forwarded nor published, no handle is taken for it and the
\* counters stay as they are.
C34_SkippedNoEffect ==
    \A c \in Conns :
        kind[c] = "ingest" =>
            /\ \A i \in 1..Len(trail[c]) : IsObject(trail[c][i][2])
            /\ ~IsObject(data[c]) =>
                  /\ pc[c] \in {"scan", "closed"}
                  /\ hconn[c] = 0
                  /\ rec[c] = NoRec

\* The same for the records the decoder refuses: they have no effect.
UndecodableSkipped ==
    \A c \in Conns :
        kind[c] = "ingest" =>
            /\ \A i \in 1..Len(trail[c]) : Unmarshal(trail[c][i][2]).ok
            /\ ~Unmarshal(data[c]).ok =>
                  /\ pc[c] \in {"scan", "closed"}
                  /\ hconn[c] = 0
                  /\ rec[c] = NoRec

\* How many of the lines are line `l` once trimmed.
RECURSIVE CountLine(_, _)
CountLine(lines, l) ==
    IF lines = <<>> THEN 0
    ELSE (IF TrimSpace(Head(lines)) = l THEN 1 ELSE 0) + CountLine(Tail(lines), l)

\* How many PONG lines client c has received.
RECURSIVE CountPong(_)
CountPong(writes) ==
    IF writes = <<>> THEN 0
    ELSE (IF Head(writes) = PONG THEN 1 ELSE 0) + CountPong(Tail(writes))

\* The lines subscriber c has sent after its SUBSCRIBE line.
ControlLines(c) == SubSeq(script[c].lines, 2, sent[c])

\* C35: a subscriber that reads what it is sent, and whose handler waits for
\* its next line, has received one PONG for each PING it has sent and has
\* sent no QUIT.
C35_PingPong ==
    \A c \in Conns :
        (kind[c] = "sub" /\ pc[c] = "control" /\ inbuf[c] = <<>> /\ SinkWritable(c)) =>
            /\ CountPong(recv[c]) = CountLine(ControlLines(c), PING)
            /\ CountLine(ControlLines(c), QUIT) = 0

\* The same for the lines the control loop itself reads: those sent after
\* the handler was chosen.
ControlLoopStep ==
    [][\A c \in Conns :
          (pc[c] = "control" /\ inbuf[c] # <<>> /\ ~srvClosed[c]) =>
              LET line == TrimSpace(Head(inbuf[c]))
              IN  /\ inbuf'[c] = Tail(inbuf[c]) =>
                     /\ (line = PING /\ SinkWritable(c)) => recv'[c] = Append(recv[c], PONG)
                     /\ line # PING => recv'[c] = recv[c]
                     /\ (line = QUIT) <=> (pc'[c] = "Unsubscribe")
                     /\ subscribers' = subscribers /\ trail' = trail
                     /\ downstream' = downstream]_vars

\* C36: a subscriber whose handler has left its control loop (its connection
\* closed, or it sent QUIT), or to which a publish write has failed, is
\* removed from the hub and its sink is closed.
C36_Removed ==
    \A s \in Conns :
        (pc[s] = "Unsubscribe" \/ WriteFailed(s)) ~> (~Registered(s) /\ srvClosed[s])

\* Once the handler of a subscriber connection has exited, no subscriber of
\* the hub has that connection as its sink.
ExitedNotRegistered ==
    \A s \in Conns : (kind[s] = "sub" /\ pc[s] = "closed") => ~Registered(s)

\* C37: no increment of the events counter is lost: each publish pass that
\* found a subscriber raises totalEvents by exactly 1 when it ends, whatever
\* the other ingestion handlers do meanwhile.
C37_NoLostIncrement ==
    [][\A c \in Conns :
          (pc[c] = "countStore" /\ Moves(c)) => totalEvents' = totalEvents + 1]_vars

\* C38: a handler that holds a handle gives it up: the handle goes back to
\* the idle cache or is closed, whatever the forward and the publish did.
C38_HandleReleased ==
    \A c \in Conns : (hconn[c] # 0) ~> (hconn[c] = 0)

\* C39: the first line a subscriber receives on its connection is the
\* acknowledgement of its registration.
C39_AckFirst ==
    \A s \in Conns :
        (kind[s] = "sub" /\ recv[s] # <<>>) => recv[s][1] = Subscribed(subId[s])

\* The lines the producers of the workload send as records.
EventLines ==
    UNION {{Line(Record(c, i)) : i \in 1..Len(script[c].lines)} : c \in Conns}

\* C40: every write a subscriber receives is one whole line (its
\* acknowledgement, a PONG or the line of a record), no record's line comes
\* twice, and while a Publish is inside its write to a subscriber's
\* connection the deadline it set is in force and no other Publish is
\* inside its write to that connection.
C40_WholeLines ==
    /\ \A s \in Conns :
          kind[s] = "sub" =>
              /\ \A i \in 1..Len(recv[s]) :
                    recv[s][i] \in {Subscribed(subId[s]), PONG} \cup EventLines
              /\ \A i, j \in 1..Len(recv[s]) :
                    (recv[s][i] = recv[s][j] /\ recv[s][i] \in EventLines) => i = j
    /\ \A c \in Conns :
          pc[c] = "Flush" =>
              /\ deadline[subscribers[visiting[c]].conn]
              /\ ~Raced(c, subscribers[visiting[c]].conn)
====
